---- MODULE Spec2Model ----
(***************************************************************************)
(* Model of the PDF RAG ingestion path of pdf-rag-on-eks:                  *)
(*   chunker.chunk_documents        (pure, sliding token window)           *)
(*   vector_store.VectorStore       (deterministic ids, batched upsert)    *)
(*   embedder.EmbeddingClient       (batched embedding requests)           *)
(* Each component has its own specification (SpecChunk, SpecUpsert,        *)
(* SpecEmbed) over the shared variables; the variables of the other        *)
(* components stay at their initial values.                                *)
(***************************************************************************)
EXTENDS Integers, Sequences, FiniteSets, TLC

VARIABLES
    \* ---- chunker.chunk_documents
    documents,        \* the list[Document] argument
    chunk_size,       \* argument
    chunk_overlap,    \* argument
    all_chunks,       \* the returned list[Chunk]
    ck_pc,            \* "idle" | "call" | "returned"
    \* ---- vector_store.VectorStore.upsert_chunks
    collection,       \* the points the Qdrant collection stores
    chunks,           \* argument
    embeddings,       \* argument
    points,           \* the list[PointStruct] built
    i,                \* offset of the batch loop
    up_pc,            \* "idle" | "loop" | "returned" | "raised"
    up_error,         \* <<>> or <<the exception the caller sees>>
    up_calls,         \* the client.upsert calls of this invocation, in order
    up_run,           \* number of invocations started
    up_coll0,         \* the collection when this invocation started
    up_prev,          \* <<>> or <<how the previous invocation ended>>
    \* ---- embedder.EmbeddingClient.embed_texts
    em_batch_size,    \* self.batch_size
    texts,            \* argument
    prefix,           \* argument
    prefixed_texts,
    all_embeddings,
    batch_index,      \* offset of the batch loop
    em_requests,      \* the "inputs" of the POST /embed requests, in order
    em_pc,            \* "idle" | "loop" | "returned" | "raised"
    em_result,        \* <<>> or <<the list returned>>
    em_error,         \* <<>> or <<the exception raised>>
    \* ---- chat-api: main.py and rag_pipeline.RAGPipeline
    pipeline,         \* the module global: <<>> (None) or <<the RAGPipeline>>
    qdrant_points,    \* the points of the collection the chat API searches
    req,              \* per POST /chat request: the locals of chat and query
    health_replies,   \* the GET /health replies given, with the pipeline then
    \* ---- two ingestion runs in vector_store.VectorStore.upsert_chunks
    run_pc,           \* per run: "idle" | "loop" | "returned" | "raised"
    run_i,            \* per run: offset of its batch loop
    run_points,       \* per run: the list[PointStruct] it built
    \* ---- pdf_parser.Document
    doc_objects,      \* the Document objects made so far, in order
    \* ---- vector_store.VectorStore.ensure_collection, two runs
    qd_collection,    \* the Qdrant collection: <<>> (absent) or <<its config>>
    en_pc,            \* per run: "idle" | "listed" | "returned" | "raised"
    en_existing,      \* per run: existing_collections as the run read them
    en_dim,           \* per run: self.vector_dimension
    en_count,         \* per run: number of ensure_collection calls started
    en_log,           \* the client calls of all runs, in order
    \* ---- ingestion main.py
    ing_pc,           \* where main() stands
    ing_dir,          \* the PDF directory of this run: <<>> or <<its files>>
    ing_file,         \* number of PDF files parsed and chunked
    ing_chunks,       \* main's all_chunks
    ing_embeddings,   \* the vectors gathered by embed_texts
    ing_offset,       \* offset of the upsert batch loop
    ing_calls,        \* the calls to embedding service and store, in order
    ing_run,          \* number of runs started
    ing_coll0,        \* the points stored when this run started
    \* ---- scripts/chat.py
    cli_pc,           \* "start" | "prompt" | "waiting" | "exited" | "exit1" | "crashed"
    cli_history,      \* the local history list
    cli_question,     \* the question of the request in flight
    cli_sent,         \* the JSON bodies posted to /chat, in order
    cli_before,       \* the history when the last input was read
    cli_last,         \* what the last input turned out to be
    cli_reply         \* the JSON of the last 200 reply: <<>> or <<data>>

chunkVars == <<documents, chunk_size, chunk_overlap, all_chunks, ck_pc>>

upsertVars == <<collection, chunks, embeddings, points, i, up_pc, up_error,
                up_calls, up_run, up_coll0, up_prev>>

embedVars == <<em_batch_size, texts, prefix, prefixed_texts, all_embeddings,
               batch_index, em_requests, em_pc, em_result, em_error>>

chatVars == <<pipeline, qdrant_points, req, health_replies>>

runVars == <<run_pc, run_i, run_points>>

docVars == <<doc_objects>>

ensureVars == <<qd_collection, en_pc, en_existing, en_dim, en_count, en_log>>

ingestVars == <<ing_pc, ing_dir, ing_file, ing_chunks, ing_embeddings,
                ing_offset, ing_calls, ing_run, ing_coll0>>

cliVars == <<cli_pc, cli_history, cli_question, cli_sent, cli_before, cli_last,
             cli_reply>>

laterVars == <<docVars, ensureVars, ingestVars, cliVars>>

vars == <<chunkVars, upsertVars, embedVars, chatVars, runVars, laterVars>>

Min(a, b) == IF a <= b THEN a ELSE b

(***************************************************************************)
(* Bounds of the model.                                                    *)
(***************************************************************************)
\* single-page inputs have 0..MaxTokens tokens
MaxTokens == 45
\* upsert_chunks is invoked at most this many times in a behaviour
MaxUpsertCalls == 2
\* the embedding client's batch_size is 1..MaxBatchSize
MaxBatchSize == 4
\* embed_texts gets 0..MaxTexts texts
MaxTexts == 13

(***************************************************************************)
(* pdf_parser.Document                                                     *)
(***************************************************************************)
\* The page text is abstract: a name and the number of tokens the fixed
\* tokenizer gives it.
Content(name, ntokens) == [name |-> name, ntokens |-> ntokens]

\* hashlib.sha256(content).hexdigest(): a string that is a function of the
\* content and differs for different contents.
Sha256(content) == "h" \o content.name \o "n" \o ToString(content.ntokens)

\* a __post_init__ that keeps the empty default
PostInitKeepsDefault(content, content_hash) == content_hash

\* Document.__post_init__: the hash of the content unless a non-empty
\* content_hash was passed to the constructor
PostInit(content, content_hash) ==
    IF content_hash = "" THEN Sha256(content) ELSE content_hash

\* Document(content, page_number, source, content_hash)
Document(content, page_number, source, content_hash) ==
    [content |-> content, page_number |-> page_number, source |-> source,
     content_hash |-> PostInit(content, content_hash)]

\* Document(content, page_number, source): __post_init__ fills content_hash
MakeDocument(content, page_number, source) ==
    Document(content, page_number, source, "")

(***************************************************************************)
(* chunker.chunk_documents                                                 *)
(***************************************************************************)
\* the minimum number of tokens of an emitted window
MinChunkTokens == 20

\* the defaults of chunk_documents' parameters
DefaultChunkSize == 512
DefaultChunkOverlap == 50

\* len(_ENCODING.encode(document.content)); the token ids themselves are
\* the positions 0 .. n-1 of the page
TokenCount(document) == document.content.ntokens

\* a window that is not clipped at the end of the page (padded to full size)
WindowPadded(ntokens, start, size) ==
    [from |-> start, to |-> start + size]

\* token_ids[start : start + chunk_size] as the half-open range of token
\* positions the slice holds (a Python slice clips at the end of the list)
Window(ntokens, start, size) ==
    [from |-> Min(start, ntokens), to |-> Min(start + size, ntokens)]

WindowLen(window) == window.to - window.from

\* _ENCODING.decode(window): the text of the page spanned by the window
Decode(document, window) ==
    [content |-> document.content.name, from |-> window.from, to |-> window.to]

MakeChunk(document, window, chunk_index) ==
    [text |-> Decode(document, window),
     metadata |-> [page_number |-> document.page_number,
                   source |-> document.source,
                   content_hash |-> document.content_hash,
                   chunk_index |-> chunk_index]]

\* the window loop without its `break`: it keeps sliding after the window
\* that reached the end of the page
RECURSIVE WindowLoopNoBreak(_, _, _, _, _)
WindowLoopNoBreak(document, size, step, start, chunk_index) ==
    LET n == TokenCount(document)
        window == Window(n, start, size)
    IN  IF start >= n
        THEN <<>>
        ELSE IF WindowLen(window) < MinChunkTokens
        THEN WindowLoopNoBreak(document, size, step, start + step, chunk_index)
        ELSE <<MakeChunk(document, window, chunk_index)>> \o
             WindowLoopNoBreak(document, size, step, start + step,
                               chunk_index + 1)

\* The body of `for start in range(0, len(token_ids), step)` from `start`
\* on, with the current chunk_index: the chunks it appends.
RECURSIVE WindowLoop(_, _, _, _, _)
WindowLoop(document, size, step, start, chunk_index) ==
    LET n == TokenCount(document)
        window == Window(n, start, size)
    IN  IF start >= n
        THEN <<>>                                   \* range exhausted
        ELSE IF WindowLen(window) < MinChunkTokens
        THEN WindowLoop(document, size, step, start + step, chunk_index)
        ELSE <<MakeChunk(document, window, chunk_index)>> \o
             (IF start + size >= n
              THEN <<>>                             \* break
              ELSE WindowLoop(document, size, step, start + step,
                              chunk_index + 1))

\* chunk_index counted from 1, as page_number is
DocumentChunksOneBased(document, size, overlap) ==
    IF TokenCount(document) = 0
    THEN <<>>
    ELSE WindowLoop(document, size, size - overlap, 0, 1)

\* a loop whose first window starts one step into the page
DocumentChunksFromStep(document, size, overlap) ==
    IF TokenCount(document) = 0
    THEN <<>>
    ELSE WindowLoop(document, size, size - overlap, size - overlap, 0)

\* the chunks of one document
DocumentChunks(document, size, overlap) ==
    IF TokenCount(document) = 0
    THEN <<>>                                       \* continue
    ELSE WindowLoop(document, size, size - overlap, 0, 0)

\* chunk_documents advancing by the whole window (step = chunk_size)
RECURSIVE ChunkDocumentsNoOverlap(_, _, _)
ChunkDocumentsNoOverlap(docs, size, overlap) ==
    IF docs = <<>>
    THEN <<>>
    ELSE (IF TokenCount(Head(docs)) = 0
          THEN <<>>
          ELSE WindowLoop(Head(docs), size, size, 0, 0)) \o
         ChunkDocumentsNoOverlap(Tail(docs), size, overlap)

RECURSIVE ChunkDocuments(_, _, _)
ChunkDocuments(docs, size, overlap) ==
    IF docs = <<>>
    THEN <<>>
    ELSE DocumentChunks(Head(docs), size, overlap) \o
         ChunkDocuments(Tail(docs), size, overlap)

\* the chunker is not running
ChunkIdle ==
    /\ documents = <<>>
    /\ chunk_size = DefaultChunkSize
    /\ chunk_overlap = DefaultChunkOverlap
    /\ all_chunks = <<>>
    /\ ck_pc = "idle"

\* no upsert_chunks call has been made
UpsertIdle ==
    /\ collection = {}
    /\ chunks = <<>>
    /\ embeddings = <<>>
    /\ points = <<>>
    /\ i = 0
    /\ up_pc = "idle"
    /\ up_error = <<>>
    /\ up_calls = <<>>
    /\ up_run = 0
    /\ up_coll0 = {}
    /\ up_prev = <<>>

\* the default batch_size of EmbeddingClient
DefaultEmbedBatchSize == 32

\* the default of Config.embedding_dimension and of VectorStore's
\* vector_dimension
embedding_dimension == 768

\* no embed_texts call has been made
EmbedIdle ==
    /\ em_batch_size = DefaultEmbedBatchSize
    /\ texts = <<>>
    /\ prefix = "search_document: "
    /\ prefixed_texts = <<>>
    /\ all_embeddings = <<>>
    /\ batch_index = 0
    /\ em_requests = <<>>
    /\ em_pc = "idle"
    /\ em_result = <<>>
    /\ em_error = <<>>

(***************************************************************************)
(* Bounds of the chat API specification                                    *)
(***************************************************************************)
\* POST /chat requests in one behaviour
MaxRequests == 2

Requests == 1 .. MaxRequests

\* the locals of a POST /chat request that has not arrived
NoRequest ==
    [pc |-> "none", question |-> "", history |-> <<>>, calls |-> <<>>,
     query_embedding |-> <<>>, search_results |-> <<>>, messages |-> <<>>,
     failed |-> <<>>, result |-> <<>>, response |-> <<>>]

\* the chat API process has not started
ChatIdle ==
    /\ pipeline = <<>>
    /\ qdrant_points = {}
    /\ req = [r \in Requests |-> NoRequest]
    /\ health_replies = {}

\* the two ingestion runs
Runs == {1, 2}

\* no concurrent run has started
RunsIdle ==
    /\ run_pc = [r \in Runs |-> "idle"]
    /\ run_i = [r \in Runs |-> 0]
    /\ run_points = [r \in Runs |-> <<>>]

\* no Document has been made
DocIdle == doc_objects = <<>>

\* neither run has called ensure_collection
EnsureIdle ==
    /\ qd_collection = <<>>
    /\ en_pc = [r \in Runs |-> "idle"]
    /\ en_existing = [r \in Runs |-> {}]
    /\ en_dim = [r \in Runs |-> embedding_dimension]
    /\ en_count = [r \in Runs |-> 0]
    /\ en_log = <<>>

\* main() has not been started
IngestIdle ==
    /\ ing_pc = "idle"
    /\ ing_dir = <<>>
    /\ ing_file = 0
    /\ ing_chunks = <<>>
    /\ ing_embeddings = <<>>
    /\ ing_offset = 0
    /\ ing_calls = <<>>
    /\ ing_run = 0
    /\ ing_coll0 = {}

\* the chat client has not been started
CliIdle ==
    /\ cli_pc = "start"
    /\ cli_history = <<>>
    /\ cli_question = ""
    /\ cli_sent = <<>>
    /\ cli_before = <<>>
    /\ cli_last = "none"
    /\ cli_reply = <<>>

LaterIdle == DocIdle /\ EnsureIdle /\ IngestIdle /\ CliIdle

(***************************************************************************)
(* Inputs of the chunker specification                                     *)
(***************************************************************************)

ChunkSizes == {8, 20, 24, DefaultChunkSize}
ChunkOverlaps == {1, 5, 19, 21, DefaultChunkOverlap}

PageA(n) == MakeDocument(Content("A", n), 1, "a.pdf")
PageB(n) == MakeDocument(Content("B", n), 2, "a.pdf")

\* token counts of the pages of two-page inputs
TwoPageTokens == {0, 19, 20, 33, MaxTokens}

\* the 1000-token page of the documented scenario
ScenarioPage == PageA(1000)

DocumentLists ==
    {<<PageA(n)>> : n \in 0 .. MaxTokens} \cup {<<ScenarioPage>>}
    \cup {<<PageA(n), PageB(m)>> : n \in TwoPageTokens, m \in TwoPageTokens}

ChunkInit ==
    /\ documents \in DocumentLists
    /\ chunk_size \in ChunkSizes
    /\ chunk_overlap \in ChunkOverlaps
    /\ 0 < chunk_overlap /\ chunk_overlap < chunk_size
    \* the 1000-token page goes with the documented default parameters
    /\ documents = <<ScenarioPage>>
          => (chunk_size = DefaultChunkSize /\ chunk_overlap = DefaultChunkOverlap)
    /\ all_chunks = <<>>
    /\ ck_pc = "call"
    /\ UpsertIdle
    /\ EmbedIdle
    /\ ChatIdle
    /\ RunsIdle
    /\ LaterIdle

CallChunkDocuments ==
    /\ ck_pc = "call"
    /\ all_chunks' = ChunkDocuments(documents, chunk_size, chunk_overlap)
    /\ ck_pc' = "returned"
    /\ UNCHANGED <<documents, chunk_size, chunk_overlap>>
    /\ UNCHANGED <<upsertVars, embedVars, chatVars, runVars, laterVars>>

ChunkNext == CallChunkDocuments

SpecChunk == ChunkInit /\ [][ChunkNext]_vars

(***************************************************************************)
(* Properties of chunk_documents                                           *)
(***************************************************************************)
\* the chunks emitted for a document, in emission order (pages of an input
\* have distinct page numbers)
ChunksOf(document) ==
    SelectSeq(all_chunks,
              LAMBDA c : c.metadata.page_number = document.page_number
                         /\ c.metadata.source = document.source)

\* the token window a chunk was decoded from
WindowOf(chunk) == <<chunk.text.from, chunk.text.to>>

WindowsOf(document) ==
    [x \in 1 .. Len(ChunksOf(document)) |-> WindowOf(ChunksOf(document)[x])]

InputPages == {documents[k] : k \in 1 .. Len(documents)}

\* the first k whose window end k*step + chunk_size reaches the page end
FirstReaching(n) ==
    LET step == chunk_size - chunk_overlap
    IN  CHOOSE k \in 0 .. n :
            /\ k * step + chunk_size >= n
            /\ \A j \in 0 .. k - 1 : j * step + chunk_size < n

\* the windows the specification asks for, for a page of n > 0 tokens
ExpectedWindows(n) ==
    LET step == chunk_size - chunk_overlap
        all  == [x \in 1 .. FirstReaching(n) + 1 |->
                    <<(x - 1) * step, Min((x - 1) * step + chunk_size, n)>>]
    IN  SelectSeq(all, LAMBDA w : w[2] - w[1] >= MinChunkTokens)

\* C1: for every page of L > 0 tokens the emitted token windows are exactly
\* [k*step, min(k*step + chunk_size, L)) for k = 0 .. the first k whose
\* window end reaches L, minus the windows of fewer than 20 tokens; a
\* 1000-token page with chunk_size 512 and overlap 50 gives exactly
\* [0,512), [462,974), [924,1000).
C1_Windows ==
    ck_pc = "returned" =>
        /\ \A d \in InputPages :
               TokenCount(d) > 0 => WindowsOf(d) = ExpectedWindows(TokenCount(d))
        /\ (/\ documents = <<ScenarioPage>>
            /\ chunk_size = DefaultChunkSize
            /\ chunk_overlap = DefaultChunkOverlap)
              => WindowsOf(ScenarioPage)
                    = << <<0, 512>>, <<462, 974>>, <<924, 1000>> >>

C1_Witness ==
    /\ ck_pc = "returned"
    /\ documents = <<ScenarioPage>>
    /\ Len(all_chunks) = 3
    /\ WindowOf(all_chunks[3]) = <<924, 1000>>

\* C4: within each page the emitted chunks carry chunk_index 0, 1, .., n-1
\* in emission order, starting at 0 for every page.
C4_ChunkIndex ==
    ck_pc = "returned" =>
        \A d \in InputPages :
            \A x \in 1 .. Len(ChunksOf(d)) :
                ChunksOf(d)[x].metadata.chunk_index = x - 1

\* both pages emit at least two chunks and the first page ends in a
\* dropped window (its last emitted window stops short of the page end)
C4_Witness ==
    /\ ck_pc = "returned"
    /\ Len(documents) = 2
    /\ \A d \in InputPages : Len(ChunksOf(d)) >= 2
    /\ LET cs == ChunksOf(documents[1])
       IN  cs[Len(cs)].text.to < TokenCount(documents[1])
    /\ all_chunks[Len(all_chunks)].metadata.chunk_index
          = Len(ChunksOf(documents[2])) - 1

\* C5: for two consecutive emitted chunks of a page, the last `overlap`
\* token positions of the earlier window are the first `overlap` positions
\* of the later window, which has at least `overlap` tokens.
C5_Overlap ==
    ck_pc = "returned" =>
        \A d \in InputPages :
            \A x \in 1 .. Len(ChunksOf(d)) - 1 :
                LET a == WindowOf(ChunksOf(d)[x])
                    b == WindowOf(ChunksOf(d)[x + 1])
                IN  /\ a[2] - a[1] >= chunk_overlap
                    /\ b[2] - b[1] >= chunk_overlap
                    /\ (a[2] - chunk_overlap) .. (a[2] - 1)
                          = b[1] .. (b[1] + chunk_overlap - 1)

\* two consecutive chunks, the later one clipped at the page end
C5_Witness ==
    /\ ck_pc = "returned"
    /\ \E d \in InputPages :
          /\ Len(ChunksOf(d)) >= 2
          /\ LET b == WindowOf(ChunksOf(d)[Len(ChunksOf(d))])
             IN  b[2] - b[1] < chunk_size /\ b[2] = TokenCount(d)

\* C6: a page of zero tokens yields no chunk; a page shorter than
\* chunk_size yields exactly one chunk, the whole page, when it has at
\* least 20 tokens and no chunk when it has fewer.
C6_ShortPages ==
    ck_pc = "returned" =>
        \A d \in InputPages :
            /\ TokenCount(d) = 0 => ChunksOf(d) = <<>>
            /\ (TokenCount(d) < chunk_size /\ TokenCount(d) >= MinChunkTokens)
                  => WindowsOf(d) = << <<0, TokenCount(d)>> >>
            /\ (TokenCount(d) < chunk_size /\ TokenCount(d) < MinChunkTokens)
                  => ChunksOf(d) = <<>>

\* an empty page and a page of 20 .. chunk_size - 1 tokens: one chunk in all
C6_Witness ==
    /\ ck_pc = "returned"
    /\ Len(documents) = 2
    /\ TokenCount(documents[1]) = 0
    /\ TokenCount(documents[2]) >= MinChunkTokens
    /\ TokenCount(documents[2]) < chunk_size
    /\ Len(all_chunks) = 1

(***************************************************************************)
(* vector_store.VectorStore.upsert_chunks                                  *)
(***************************************************************************)
\* points per client.upsert call
batch_size == 100

\* a name built from the content hash alone
PointNameHashOnly(chunk) == chunk.metadata.content_hash

\* f"{chunk.metadata['content_hash']}_{chunk.metadata['chunk_index']}"
PointName(chunk) ==
    chunk.metadata.content_hash \o "_" \o ToString(chunk.metadata.chunk_index)

\* uuid.uuid5(namespace, name): a function of its arguments, taken to be
\* free of collisions
Uuid5(namespace, name) == <<"uuid5", namespace, name>>

\* an id drawn afresh for every invocation (as uuid4 would be)
PointIdPerRun(chunk) == <<"uuid4", up_run, PointName(chunk)>>

PointId(chunk) == Uuid5("NAMESPACE_URL", PointName(chunk))

\* {**chunk.metadata, "text": chunk.text}
Payload(chunk) ==
    [page_number |-> chunk.metadata.page_number,
     source |-> chunk.metadata.source,
     content_hash |-> chunk.metadata.content_hash,
     chunk_index |-> chunk.metadata.chunk_index,
     text |-> chunk.text]

PointStruct(chunk, embedding) ==
    [id |-> PointId(chunk), vector |-> embedding, payload |-> Payload(chunk)]

\* the list built by `for chunk, embedding in zip(chunks, embeddings)`
BuildPoints(cs, es) ==
    [k \in 1 .. Min(Len(cs), Len(es)) |-> PointStruct(cs[k], es[k])]

\* a guard that lets unequal lengths through
LengthsMatchLoose(cs, es) == TRUE

\* the negation of `len(chunks) != len(embeddings)`
LengthsMatch(cs, es) == Len(cs) = Len(es)

\* a slice one point too long
BatchAtOverlong(ps, offset) ==
    SubSeq(ps, offset + 1, Min(offset + batch_size + 1, Len(ps)))

\* points[i : i + batch_size]
BatchAt(ps, offset) ==
    SubSeq(ps, offset + 1, Min(offset + batch_size, Len(ps)))

\* Qdrant's upsert of a batch: each point replaces the stored point of the
\* same id, or is added; within a batch the last point of an id wins.
StoreUpsert(coll, batch) ==
    LET ids == {batch[k].id : k \in DOMAIN batch}
        last(id) == batch[CHOOSE k \in DOMAIN batch :
                             /\ batch[k].id = id
                             /\ \A m \in DOMAIN batch : m > k => batch[m].id # id]
    IN  {q \in coll : q.id \notin ids} \cup {last(id) : id \in ids}

\* what a failing client.upsert raises
StoreExceptions ==
    {[type |-> "UnexpectedResponse"], [type |-> "ResponseHandlingException"]}

\* the failure wrapped with the failed batch's offset range
RaisedWithRange(exc, offset, n) ==
    [type |-> "UpsertBatchError", cause |-> exc,
     offsets |-> <<offset, Min(offset + batch_size, n)>>]

\* the exception of client.upsert leaves upsert_chunks as it is (the call
\* stands in no try block)
Raised(exc, offset, n) == exc

\* the embedding of a text, as the embedding server computes it
EmbeddingOf(text) == [embedding_of |-> text]

\* upsert_chunks(chunks, embeddings) up to its first client call
CallUpsertChunks(cs, es) ==
    /\ up_pc \in {"idle", "returned", "raised"}
    /\ up_run < MaxUpsertCalls
    /\ up_run' = up_run + 1
    /\ up_prev' = IF up_run = 0
                  THEN <<>>
                  ELSE <<[chunks |-> chunks, embeddings |-> embeddings,
                          outcome |-> up_pc, collection |-> collection]>>
    /\ chunks' = cs
    /\ embeddings' = es
    /\ up_coll0' = collection
    /\ up_calls' = <<>>
    /\ i' = 0
    /\ IF ~LengthsMatch(cs, es)
       THEN /\ up_pc' = "raised"
            /\ up_error' = <<[type |-> "ValueError"]>>
            /\ points' = <<>>
       ELSE /\ up_pc' = "loop"
            /\ up_error' = <<>>
            /\ points' = BuildPoints(cs, es)
    /\ UNCHANGED collection
    /\ UNCHANGED <<chunkVars, embedVars, chatVars, runVars, laterVars>>

\* one iteration of `for i in range(0, len(points), batch_size)` whose
\* client.upsert succeeds
UpsertBatch ==
    /\ up_pc = "loop"
    /\ i < Len(points)
    /\ up_calls' = Append(up_calls, BatchAt(points, i))
    /\ collection' = StoreUpsert(collection, BatchAt(points, i))
    /\ i' = i + batch_size
    /\ UNCHANGED <<chunks, embeddings, points, up_pc, up_error, up_run,
                   up_coll0, up_prev>>
    /\ UNCHANGED <<chunkVars, embedVars, chatVars, runVars, laterVars>>

\* one iteration whose client.upsert raises: the request was lost before
\* the store applied it, or the reply was lost after
UpsertBatchFails ==
    /\ up_pc = "loop"
    /\ i < Len(points)
    /\ up_calls' = Append(up_calls, BatchAt(points, i))
    /\ \E applied \in BOOLEAN :
          collection' = IF applied
                        THEN StoreUpsert(collection, BatchAt(points, i))
                        ELSE collection
    /\ \E exc \in StoreExceptions :
          up_error' = <<Raised(exc, i, Len(points))>>
    /\ up_pc' = "raised"
    /\ UNCHANGED <<chunks, embeddings, points, i, up_run, up_coll0, up_prev>>
    /\ UNCHANGED <<chunkVars, embedVars, chatVars, runVars, laterVars>>

\* the loop is exhausted: upsert_chunks returns
UpsertReturn ==
    /\ up_pc = "loop"
    /\ i >= Len(points)
    /\ up_pc' = "returned"
    /\ UNCHANGED <<collection, chunks, embeddings, points, i, up_error,
                   up_calls, up_run, up_coll0, up_prev>>
    /\ UNCHANGED <<chunkVars, embedVars, chatVars, runVars, laterVars>>

(***************************************************************************)
(* Inputs of the upsert specification                                      *)
(***************************************************************************)
\* pages chunked with windows of 20 tokens advancing by one token: a page
\* of n >= 20 tokens gives n - 19 chunks
ChunksOfPages(docs) == ChunkDocuments(docs, MinChunkTokens, MinChunkTokens - 1)

PageC(n) == MakeDocument(Content("C", n), 3, "a.pdf")
PageD(n) == MakeDocument(Content("D", n), 4, "a.pdf")
PageE(n) == MakeDocument(Content("E", n), 5, "a.pdf")
\* the same text as page A, found on another page of another file
PageACopy(n) == MakeDocument(Content("A", n), 7, "b.pdf")

\* 0, 1, 2 chunks; two pages of equal text; 100, 101 and 201 chunks; 150
\* chunks of which the last 50 repeat the first 50 ids
UpsertDocumentLists ==
    {<<PageA(0)>>, <<PageA(20)>>, <<PageA(21)>>,
     <<PageA(21), PageACopy(21)>>,
     <<PageA(69), PageB(69)>>,
     <<PageA(69), PageB(70)>>,
     <<PageA(69), PageB(69), PageC(69), PageD(69), PageE(20)>>,
     <<PageA(69), PageB(69), PageACopy(69)>>}

EmbeddingsOf(cs) == [k \in 1 .. Len(cs) |-> EmbeddingOf(cs[k].text)]

\* a chunk of a Document whose content_hash the caller supplied
ChunkWithHash(hash, chunk_index) ==
    [text |-> [content |-> hash, from |-> chunk_index, to |-> chunk_index + 20],
     metadata |-> [page_number |-> 1, source |-> "c.pdf",
                   content_hash |-> hash, chunk_index |-> chunk_index]]

\* hashes and indexes whose names differ only by where the "_" stands
SuppliedHashChunks ==
    <<ChunkWithHash("x", 10), ChunkWithHash("x1", 0), ChunkWithHash("x_1", 0),
      ChunkWithHash("x", 1), ChunkWithHash("x_", 10), ChunkWithHash("x", 0)>>

\* every list with its embeddings, and two calls with unequal lengths
UpsertInputs ==
    {[chunks |-> ChunksOfPages(docs), embeddings |-> EmbeddingsOf(ChunksOfPages(docs))]
        : docs \in UpsertDocumentLists}
    \cup {[chunks |-> SuppliedHashChunks, embeddings |-> EmbeddingsOf(SuppliedHashChunks)]}
    \cup {[chunks |-> ChunksOfPages(<<PageA(21)>>),
           embeddings |-> EmbeddingsOf(ChunksOfPages(<<PageA(20)>>))],
          [chunks |-> ChunksOfPages(<<PageA(69), PageB(70)>>),
           embeddings |-> EmbeddingsOf(ChunksOfPages(<<PageA(69), PageB(69)>>))]}

\* what an earlier ingestion may have left in the collection
InitialCollections ==
    {{},
     {PointStruct(ChunksOfPages(<<PageACopy(21)>>)[1],
                  EmbeddingOf(ChunksOfPages(<<PageACopy(21)>>)[1].text)),
      PointStruct(ChunksOfPages(<<PageB(20)>>)[1],
                  EmbeddingOf(ChunksOfPages(<<PageB(20)>>)[1].text))}}

UpsertInit ==
    /\ ChunkIdle
    /\ EmbedIdle
    /\ ChatIdle
    /\ RunsIdle
    /\ LaterIdle
    /\ up_run = 0
    /\ collection \in InitialCollections
    /\ chunks = <<>>
    /\ embeddings = <<>>
    /\ points = <<>>
    /\ i = 0
    /\ up_pc = "idle"
    /\ up_error = <<>>
    /\ up_calls = <<>>
    /\ up_coll0 = collection
    /\ up_prev = <<>>

UpsertCall == \E in \in UpsertInputs : CallUpsertChunks(in.chunks, in.embeddings)

UpsertNext ==
    \/ UpsertCall
    \/ UpsertBatch
    \/ UpsertBatchFails
    \/ UpsertReturn

SpecUpsert == UpsertInit /\ [][UpsertNext]_vars

(***************************************************************************)
(* Properties of upsert_chunks                                             *)
(***************************************************************************)
PointIds(coll) == {q.id : q \in coll}

\* C2: upserting the same chunks with the same embeddings a second time
\* leaves the collection as the first upsert left it: the same point ids,
\* payloads and vectors, hence the same point count.
C2_IdempotentUpsert ==
    (/\ up_pc = "returned"
     /\ up_prev # <<>>
     /\ up_prev[1].outcome = "returned"
     /\ up_prev[1].chunks = chunks
     /\ up_prev[1].embeddings = embeddings)
        => /\ collection = up_prev[1].collection
           /\ PointIds(collection) = PointIds(up_prev[1].collection)
           /\ Cardinality(collection) = Cardinality(up_prev[1].collection)

\* the same 101 chunks upserted twice, in two batches each time
C2_Witness ==
    /\ up_pc = "returned"
    /\ up_prev # <<>>
    /\ up_prev[1].outcome = "returned"
    /\ up_prev[1].chunks = chunks
    /\ up_prev[1].embeddings = embeddings
    /\ Len(chunks) > batch_size
    /\ Len(up_calls) = 2
    /\ Cardinality(collection) >= Len(chunks)

PairOf(payload) == <<payload.content_hash, payload.chunk_index>>

\* C3: the point id is a function of (content_hash, chunk_index) alone:
\* two points, built in this call or stored by an earlier one, have the
\* same id exactly when their (content_hash, chunk_index) pairs are equal.
\* (Stated by counting: among the points built and stored there are as
\* many ids as pairs, and as many as (id, pair) combinations.)
C3_PointIdOfPair ==
    LET all == {points[k] : k \in DOMAIN points} \cup collection
        ids == {p.id : p \in all}
        pairs == {PairOf(p.payload) : p \in all}
        both == {<<p.id, PairOf(p.payload)>> : p \in all}
    IN  /\ Cardinality(both) = Cardinality(ids)
        /\ Cardinality(both) = Cardinality(pairs)

\* points of equal hash and different index, of different hash and equal
\* index, and of an equal pair from two different pages
C3_Witness ==
    /\ up_pc = "loop"
    /\ \E a \in DOMAIN points :
          /\ \E b \in DOMAIN points :
                /\ points[a].payload.content_hash = points[b].payload.content_hash
                /\ points[a].payload.chunk_index # points[b].payload.chunk_index
          /\ \E c \in DOMAIN points :
                /\ points[a].payload.content_hash # points[c].payload.content_hash
                /\ points[a].payload.chunk_index = points[c].payload.chunk_index
          /\ \E d \in DOMAIN points :
                /\ PairOf(points[a].payload) = PairOf(points[d].payload)
                /\ points[a].payload.source # points[d].payload.source

\* C7: a call with len(chunks) # len(embeddings) raises the validation
\* error before any client call and leaves the collection unchanged.
C7_LengthMismatch ==
    (up_pc # "idle" /\ Len(chunks) # Len(embeddings))
        => /\ up_pc = "raised"
           /\ up_error = <<[type |-> "ValueError"]>>
           /\ up_calls = <<>>
           /\ collection = up_coll0

\* a mismatching call on a collection that holds points
C7_Witness ==
    /\ up_pc = "raised"
    /\ Len(chunks) = Len(embeddings) + 1
    /\ Len(embeddings) >= batch_size
    /\ collection # {}

\* the k-th slice of at most 100 points, k = 1, 2, ..
Slice(k) ==
    [x \in 1 .. Min(100, Len(points) - 100 * (k - 1)) |-> points[100 * (k - 1) + x]]

\* the point of index x is stored, as itself or as a point of the same id
\* sent after it
Committed(x) ==
    \/ points[x] \in collection
    \/ \E m \in (x + 1) .. Len(points) :
          points[m].id = points[x].id /\ points[m] \in collection

\* C8: the points are sent as consecutive slices of at most 100 points in
\* input order, one client call per slice; when the call for a slice
\* fails, the points of the earlier slices stay committed, the failure
\* reaches the caller and no later slice is sent; a call that returns has
\* sent every slice.
C8_Batches ==
    (up_pc \in {"loop", "returned", "raised"} /\ Len(chunks) = Len(embeddings))
        => /\ Len(points) = Len(chunks)
           /\ \A k \in 1 .. Len(up_calls) :
                  /\ up_calls[k] = Slice(k)
                  /\ Len(up_calls[k]) >= 1 /\ Len(up_calls[k]) <= 100
           /\ up_pc = "raised" =>
                  /\ up_error # <<>>
                  /\ Len(up_calls) >= 1
                  /\ 100 * (Len(up_calls) - 1) < Len(points)
                  /\ \A x \in 1 .. 100 * (Len(up_calls) - 1) : Committed(x)
           /\ up_pc = "returned" =>
                  /\ up_error = <<>>
                  /\ 100 * Len(up_calls) >= Len(points)
                  /\ 100 * (Len(up_calls) - 1) < Len(points) \/ points = <<>>
                  /\ \A x \in 1 .. Len(points) : Committed(x)

\* the third slice of 201 points failed after two committed slices
C8_Witness ==
    /\ up_pc = "raised"
    /\ Len(points) = 201
    /\ Len(up_calls) = 3
    /\ Len(up_calls[3]) = 1
    /\ \A x \in 1 .. 200 : Committed(x)
    /\ ~Committed(201)

\* C9 as stated: the error reported for a failed batch carries the offset
\* range of that batch.
C9_ErrorCarriesOffsets ==
    (up_pc = "raised" /\ up_calls # <<>>)
        => /\ "offsets" \in DOMAIN up_error[1]
           /\ up_error[1].offsets = <<i, Min(i + batch_size, Len(points))>>

\* C9 amended: the error reported for a failed batch is the store client's
\* exception as raised, the same whichever batch failed; it carries no
\* offset range.
C9_ErrorIsClientException ==
    (up_pc = "raised" /\ up_calls # <<>>)
        => /\ up_error[1] \in StoreExceptions
           /\ "offsets" \notin DOMAIN up_error[1]

\* the second of three batches failed
C9_Witness ==
    /\ up_pc = "raised"
    /\ Len(up_calls) = 2
    /\ i = batch_size
    /\ Len(points) = 201
    /\ up_error[1] \in StoreExceptions

(***************************************************************************)
(* embedder.EmbeddingClient.embed_texts                                    *)
(***************************************************************************)
\* f"{prefix}{text}" for every text
PrefixedTexts(pre, ts) == [k \in 1 .. Len(ts) |-> pre \o ts[k]]

\* a slice that loses its last text
EmbedBatchAtShort(ps, offset, size) ==
    SubSeq(ps, offset + 1, Min(offset + size - 1, Len(ps)))

\* prefixed_texts[batch_index : batch_index + self.batch_size]
EmbedBatchAt(ps, offset, size) ==
    SubSeq(ps, offset + 1, Min(offset + size, Len(ps)))

\* the TEI server's reply to POST /embed: one vector per input, in order
ServerEmbed(inputs) == [k \in 1 .. Len(inputs) |-> EmbeddingOf(inputs[k])]

\* what a failing request raises: raise_for_status on a 4xx/5xx reply, a
\* refused connection, a timeout
EmbedExceptions ==
    {[type |-> "HTTPStatusError"], [type |-> "ConnectError"],
     [type |-> "ReadTimeout"]}

\* embed_texts(texts, prefix) up to its first request
CallEmbedTexts(ts, pre) ==
    /\ em_pc = "idle"
    /\ texts' = ts
    /\ prefix' = pre
    /\ prefixed_texts' = PrefixedTexts(pre, ts)
    /\ all_embeddings' = <<>>
    /\ batch_index' = 0
    /\ em_requests' = <<>>
    /\ em_pc' = "loop"
    /\ UNCHANGED <<em_batch_size, em_result, em_error>>
    /\ UNCHANGED <<chunkVars, upsertVars, chatVars, runVars, laterVars>>

\* one iteration of the batch loop whose request succeeds
EmbedBatch ==
    /\ em_pc = "loop"
    /\ batch_index < Len(prefixed_texts)
    /\ LET batch == EmbedBatchAt(prefixed_texts, batch_index, em_batch_size)
       IN  /\ em_requests' = Append(em_requests, batch)
           /\ all_embeddings' = all_embeddings \o ServerEmbed(batch)
    /\ batch_index' = batch_index + em_batch_size
    /\ UNCHANGED <<em_batch_size, texts, prefix, prefixed_texts, em_pc,
                   em_result, em_error>>
    /\ UNCHANGED <<chunkVars, upsertVars, chatVars, runVars, laterVars>>

\* a failing request whose exception is swallowed: the vectors gathered so
\* far are handed back
FailedRequestReturnsPartial(exc, gathered) ==
    [pc |-> "returned", result |-> <<gathered>>, error |-> <<>>]

\* how embed_texts ends when a request raises exc: no try/except surrounds
\* the loop, so the exception leaves the function and nothing is returned
FailedRequest(exc, gathered) ==
    [pc |-> "raised", result |-> <<>>, error |-> <<exc>>]

\* one iteration whose request fails: the exception leaves embed_texts
EmbedBatchFails ==
    /\ em_pc = "loop"
    /\ batch_index < Len(prefixed_texts)
    /\ em_requests' = Append(em_requests,
                             EmbedBatchAt(prefixed_texts, batch_index, em_batch_size))
    /\ \E exc \in EmbedExceptions :
           LET end == FailedRequest(exc, all_embeddings)
           IN  /\ em_error' = end.error
               /\ em_result' = end.result
               /\ em_pc' = end.pc
    /\ UNCHANGED <<em_batch_size, texts, prefix, prefixed_texts, all_embeddings,
                   batch_index>>
    /\ UNCHANGED <<chunkVars, upsertVars, chatVars, runVars, laterVars>>

\* the loop is exhausted: embed_texts returns all_embeddings
EmbedReturn ==
    /\ em_pc = "loop"
    /\ batch_index >= Len(prefixed_texts)
    /\ em_result' = <<all_embeddings>>
    /\ em_pc' = "returned"
    /\ UNCHANGED <<em_batch_size, texts, prefix, prefixed_texts, all_embeddings,
                   batch_index, em_requests, em_error>>
    /\ UNCHANGED <<chunkVars, upsertVars, chatVars, runVars, laterVars>>

(***************************************************************************)
(* Inputs of the embedding specification                                   *)
(***************************************************************************)
\* n different texts
TextList(n) == [k \in 1 .. n |-> "t" \o ToString(k)]

Prefixes == {"search_document: ", "search_query: "}

EmbedInit ==
    /\ ChunkIdle
    /\ UpsertIdle
    /\ ChatIdle
    /\ RunsIdle
    /\ LaterIdle
    /\ em_batch_size \in 1 .. MaxBatchSize
    /\ texts = <<>>
    /\ prefix = "search_document: "
    /\ prefixed_texts = <<>>
    /\ all_embeddings = <<>>
    /\ batch_index = 0
    /\ em_requests = <<>>
    /\ em_pc = "idle"
    /\ em_result = <<>>
    /\ em_error = <<>>

EmbedCall ==
    \E n \in 0 .. MaxTexts : \E pre \in Prefixes : CallEmbedTexts(TextList(n), pre)

EmbedNext ==
    \/ EmbedCall
    \/ EmbedBatch
    \/ EmbedBatchFails
    \/ EmbedReturn

SpecEmbed == EmbedInit /\ [][EmbedNext]_vars

(***************************************************************************)
(* Properties of embed_texts                                               *)
(***************************************************************************)
RECURSIVE Concat(_)
Concat(seqs) == IF seqs = <<>> THEN <<>> ELSE Head(seqs) \o Concat(Tail(seqs))

\* C10: with a server that returns one vector per input, embed_texts on N
\* texts with batch size B returns N vectors, the k-th the vector of the
\* k-th text, after ceil(N/B) requests of 1..B texts each that carry the
\* prefixed texts in input order.
C10_BatchIntegrity ==
    em_pc = "returned" =>
        LET N == Len(texts)
            B == em_batch_size
            out == em_result[1]
        IN  /\ Len(out) = N
            /\ \A k \in 1 .. N : out[k] = EmbeddingOf(prefix \o texts[k])
            /\ Len(em_requests) * B >= N
            /\ (Len(em_requests) - 1) * B < N \/ N = 0
            /\ N = 0 => em_requests = <<>>
            /\ \A r \in 1 .. Len(em_requests) :
                   Len(em_requests[r]) >= 1 /\ Len(em_requests[r]) <= B
            /\ Concat(em_requests) = [k \in 1 .. N |-> prefix \o texts[k]]

\* N = B + 1 texts: a full batch and a batch of one
C10_Witness ==
    /\ em_pc = "returned"
    /\ em_batch_size >= 2
    /\ Len(texts) = em_batch_size + 1
    /\ Len(em_requests) = 2
    /\ Len(em_requests[2]) = 1
    /\ Len(em_result[1]) = Len(texts)

\* a request was sent whose reply never reached all_embeddings
EmbedRequestFailed == Len(Concat(em_requests)) > Len(all_embeddings)

\* C11: when a batch request of embed_texts fails (error status, refused
\* connection or timeout) the call ends with that exception: it returns no
\* vectors, those of the earlier batches included, and the failed request
\* is the last one it sent.
C11_FailedBatchFailsCall ==
    EmbedRequestFailed =>
        /\ em_pc = "raised"
        /\ em_result = <<>>
        /\ em_error # <<>>
        /\ em_error[1] \in EmbedExceptions
        /\ Len(em_requests) = batch_index \div em_batch_size + 1
        /\ Len(Concat(SubSeq(em_requests, 1, Len(em_requests) - 1)))
               = Len(all_embeddings)
        /\ Len(all_embeddings) = batch_index

\* the third of four batches fails after two batches were embedded
C11_Witness ==
    /\ em_pc = "raised"
    /\ EmbedRequestFailed
    /\ Len(em_requests) = 3
    /\ Len(all_embeddings) = 2 * em_batch_size
    /\ Len(texts) > 3 * em_batch_size
    /\ em_result = <<>>

(***************************************************************************)
(* chat-api: rag_pipeline.RAGPipeline                                      *)
(***************************************************************************)
\* the default of Config.rag_top_k
rag_top_k == 5

\* Config.vllm_model
vllm_model == "hugging-quants/Meta-Llama-3.1-8B-Instruct-AWQ-INT4"

\* dict.get(key, default)
Get(d, key, default) == IF key \in DOMAIN d THEN d[key] ELSE default

Abs(n) == IF n < 0 THEN 0 - n ELSE n

\* the "inputs" of embed_question's POST /embed
EmbedQuestionInputs(question) == <<"search_query: " \o question>>

\* The similarity Qdrant computes between the query vector and a stored
\* vector, in units of 0.00001: a function of the two vectors.  The values
\* are even, so none lies half way between two 4-decimal numbers.
Similarity(query_embedding, vector) ==
    LET d == Abs(Len(query_embedding.embedding_of) - Len(vector.embedding_of))
    IN  IF d >= 89 THEN 0 ELSE 100000 - 1112 * (d + 1)

\* a ScoredPoint of the reply (with_payload=True, vectors are not sent)
ScoredPoint(point, query_embedding) ==
    [id |-> point.id, payload |-> point.payload,
     score |-> Similarity(query_embedding, point.vector)]

\* query_points(query=query_embedding, limit=top_k).points: the limit
\* nearest points, the most similar first
RECURSIVE QueryPoints(_, _, _)
QueryPoints(stored, query_embedding, limit) ==
    IF limit <= 0 \/ stored = {}
    THEN <<>>
    ELSE LET best == CHOOSE p \in stored :
                         \A q \in stored :
                             Similarity(query_embedding, p.vector)
                                 >= Similarity(query_embedding, q.vector)
         IN  <<ScoredPoint(best, query_embedding)>>
                 \o QueryPoints(stored \ {best}, query_embedding, limit - 1)

\* the system message of build_prompt
system_prompt ==
    "You are a helpful assistant that answers questions based on the "
    \o "provided context. Always cite which page numbers your answer comes "
    \o "from. If the context doesn't contain enough information to answer "
    \o "the question, say so honestly. Do not make up information that is "
    \o "not supported by the context."

\* history is <<>> (None) or <<the list>>; `if history:` is false for None
\* and for the empty list
HistoryMessages(history) ==
    IF history = <<>> \/ history[1] = <<>>
    THEN <<>>
    ELSE [k \in 1 .. Len(history[1]) |->
             [role |-> Get(history[1][k], "role", "user"),
              content |-> Get(history[1][k], "content", "")]]

\* the page number as the f-string prints it
PageNum(payload) ==
    IF "page_number" \in DOMAIN payload
    THEN ToString(payload.page_number)
    ELSE "unknown"

\* context parts numbered from 0 (enumerate without start=1)
ContextPartFromZero(k, chunk) ==
    "[" \o ToString(k - 1) \o "] (Page " \o PageNum(chunk.payload) \o "): "
        \o Get(chunk.payload, "text", "")

\* f"[{i}] (Page {page_num}): {chunk_text}" for the k-th chunk
ContextPart(k, chunk) ==
    "[" \o ToString(k) \o "] (Page " \o PageNum(chunk.payload) \o "): "
        \o Get(chunk.payload, "text", "")

ContextParts(context_chunks) ==
    [k \in 1 .. Len(context_chunks) |-> ContextPart(k, context_chunks[k])]

\* sep.join(parts)
RECURSIVE Join(_, _)
Join(sep, parts) ==
    IF parts = <<>> THEN ""
    ELSE IF Len(parts) = 1 THEN parts[1]
    ELSE parts[1] \o sep \o Join(sep, Tail(parts))

UserMessage(question, context_text) ==
    "Context:\n" \o context_text \o "\n\nQuestion: " \o question
        \o "\n\nAnswer based on the context above. Cite page numbers."

\* build_prompt(question, context_chunks, history)
BuildPrompt(question, context_chunks, history) ==
    <<[role |-> "system", content |-> system_prompt]>>
        \o HistoryMessages(history)
        \o <<[role |-> "user",
              content |-> UserMessage(question,
                                      Join("\n\n", ContextParts(context_chunks)))]>>

\* the JSON body of generate_answer's POST /v1/chat/completions
GenerateBody(config, messages) ==
    [model |-> config.vllm_model, messages |-> messages,
     temperature |-> config.rag_temperature,
     max_tokens |-> config.rag_max_tokens]

\* round(score, 4) on a score in units of 0.00001
Round4(score) ==
    IF score % 10 < 5 THEN score - (score % 10) ELSE score - (score % 10) + 10

\* Source(text=..., page_number=..., source=..., score=round(score, 4))
MakeSource(result) ==
    [text |-> Get(result.payload, "text", ""),
     page_number |-> Get(result.payload, "page_number", 0),
     source |-> Get(result.payload, "source", "unknown"),
     score |-> Round4(result.score)]

\* sources that lose the last search result
PackageSourcesDropLast(search_results) ==
    [k \in 1 .. Len(search_results) - 1 |-> MakeSource(search_results[k])]

\* the sources list of query: one Source per search result, in order
PackageSources(search_results) ==
    [k \in 1 .. Len(search_results) |-> MakeSource(search_results[k])]

\* the default of Config.rag_max_tokens
rag_max_tokens == 1024

\* Config(): rag_top_k is read from the environment
Config(top_k) ==
    [rag_top_k |-> top_k, vllm_model |-> vllm_model,
     rag_temperature |-> "0.1", rag_max_tokens |-> rag_max_tokens]

\* the vLLM server's reply to a completion request: one choice whose text
\* depends on the prompt it was sent
LlmReply(body, variant) ==
    [choices |-> <<[message |->
        [role |-> "assistant",
         content |-> variant \o body.messages[Len(body.messages)].content]]>>]

(***************************************************************************)
(* chat-api: main.py (lifespan, /health, /chat) around RAGPipeline.query   *)
(***************************************************************************)
\* HTTPException(status_code=503, ...) of the guard of chat
Http503 ==
    [status_code |-> 503,
     detail |-> "RAG pipeline not initialized. The server may still be starting up."]

\* a 500 that carries the traceback next to the message
Http500WithTraceback(exc) ==
    [status_code |-> 500, detail |-> exc.message,
     traceback |-> <<"Traceback (most recent call last):", exc.type>>]

\* HTTPException(status_code=500, detail=str(e))
Http500(exc) == [status_code |-> 500, detail |-> exc.message]

\* ChatResponse(answer, sources, model, chunks_retrieved=len(sources))
ChatResponse(answer, sources, config) ==
    [status_code |-> 200, answer |-> answer, sources |-> sources,
     model |-> config.vllm_model, chunks_retrieved |-> Len(sources)]

\* a health check that looks at the pipeline
HealthWhenConstructed(p) ==
    IF p = <<>>
    THEN [status_code |-> 503, body |-> [status |-> "unavailable"]]
    ELSE [status_code |-> 200, body |-> [status |-> "healthy"]]

\* health(): return {"status": "healthy"}
Health(p) == [status_code |-> 200, body |-> [status |-> "healthy"]]

\* the guard placed inside the try block: the 503 is caught and becomes 500
NotInitializedInsideTry(rec) ==
    [rec EXCEPT !.pc = "done", !.response = <<Http500([message |-> Http503.detail])>>]

\* `if not pipeline: raise HTTPException(503)` ahead of the try block
NotInitialized(rec) ==
    [rec EXCEPT !.pc = "done", !.response = <<Http503>>]

\* the number of requests rec sent to a service
CallsTo(rec, service) ==
    Cardinality({k \in 1 .. Len(rec.calls) : rec.calls[k].service = service})

\* a failing request that is sent once more before giving up
PropagateOrRetry(rec, service, exc) ==
    IF CallsTo(rec, service) < 2
    THEN [rec EXCEPT !.calls = Append(@, rec.calls[Len(rec.calls)])]
    ELSE [rec EXCEPT !.pc = "done", !.failed = <<[service |-> service, exc |-> exc]>>,
                     !.response = <<Http500(exc)>>]

\* a failure that is swallowed: query returns an empty answer and the
\* sources it has
PropagateReturningSources(rec, service, exc) ==
    LET sources == IF rec.search_results = <<>> THEN <<>>
                   ELSE PackageSources(rec.search_results[1])
    IN  [rec EXCEPT !.pc = "done",
                    !.failed = <<[service |-> service, exc |-> exc]>>,
                    !.result = <<[answer |-> "", sources |-> sources]>>,
                    !.response = <<ChatResponse("", sources, pipeline[1].config)>>]

\* An exception of a downstream call: query has no try/except, so it
\* leaves query without a return value; chat's `except Exception` answers
\* 500 with str(e).
Propagate(rec, service, exc) ==
    [rec EXCEPT !.pc = "done", !.failed = <<[service |-> service, exc |-> exc]>>,
                !.response = <<Http500(exc)>>]

\* chat up to the await of embed_question's POST /embed
StartQuery(rec, question, history) ==
    [rec EXCEPT !.pc = "embed", !.question = question, !.history = history,
                !.calls = <<[service |-> "embed",
                             request |-> EmbedQuestionInputs(question)]>>]

\* embed_question returns response.json()[0]; query calls search_qdrant
AfterEmbed(rec, vectors, config) ==
    [rec EXCEPT !.query_embedding = <<vectors[1]>>,
                !.calls = Append(@, [service |-> "search",
                                     request |-> [query |-> vectors[1],
                                                  limit |-> config.rag_top_k]])]

\* search results kept in a field of the shared pipeline: a request uses
\* the results another request left there
AfterSearchSharedResults(rec, results, config) ==
    LET shared == IF \E r \in Requests : req[r].search_results # <<>>
                  THEN req[CHOOSE r \in Requests :
                               req[r].search_results # <<>>].search_results[1]
                  ELSE results
        messages == BuildPrompt(rec.question, shared, rec.history)
    IN  [rec EXCEPT !.search_results = <<shared>>,
                    !.messages = messages,
                    !.calls = Append(@, [service |-> "generate",
                                         request |-> GenerateBody(config, messages)]),
                    !.pc = "generate"]

\* a query that gives up when the search finds nothing
AfterSearchRejectsEmpty(rec, results, config) ==
    IF results = <<>>
    THEN Propagate(rec, "search", [type |-> "ValueError", message |-> "no results"])
    ELSE LET messages == BuildPrompt(rec.question, results, rec.history)
         IN  [rec EXCEPT !.search_results = <<results>>,
                         !.messages = messages,
                         !.calls = Append(@, [service |-> "generate",
                                              request |-> GenerateBody(config, messages)]),
                         !.pc = "generate"]

\* search_qdrant returned: build_prompt, then generate_answer up to the
\* await of its POST /v1/chat/completions
AfterSearch(rec, results, config) ==
    LET messages == BuildPrompt(rec.question, results, rec.history)
    IN  [rec EXCEPT !.search_results = <<results>>,
                    !.messages = messages,
                    !.calls = Append(@, [service |-> "generate",
                                         request |-> GenerateBody(config, messages)]),
                    !.pc = "generate"]

\* generate_answer returned: query packages the sources and returns, chat
\* builds the ChatResponse
AfterGenerate(rec, reply, config) ==
    LET answer == reply.choices[1].message.content
        sources == PackageSources(rec.search_results[1])
    IN  [rec EXCEPT !.pc = "done",
                    !.result = <<[answer |-> answer, sources |-> sources]>>,
                    !.response = <<ChatResponse(answer, sources, config)>>]

(***************************************************************************)
(* Inputs of the chat API specification                                    *)
(***************************************************************************)
\* values of RAG_TOP_K: below and above the number of indexed points
TopKs == {2, rag_top_k}

\* a point as the ingestion pipeline stores it
IndexedPoint(text, page_number, chunk_index) ==
    PointStruct([text |-> text,
                 metadata |-> [page_number |-> page_number,
                               source |-> "policy.pdf",
                               content_hash |-> "h" \o ToString(page_number),
                               chunk_index |-> chunk_index]],
                EmbeddingOf("search_document: " \o text))

\* a point another writer stored, whose payload has only a text
ForeignPoint(text) ==
    [id |-> <<"uuid4", text>>,
     vector |-> EmbeddingOf("search_document: " \o text),
     payload |-> [text |-> text]]

IndexedCollections ==
    {{},
     {IndexedPoint("Refunds are issued within 30 days.", 5, 0),
      IndexedPoint("International orders ship within two weeks.", 12, 0),
      IndexedPoint("Gift cards never expire.", 12, 1),
      ForeignPoint("Handwritten margin note")}}

\* the question and history of a POST /chat body; history is <<>> when the
\* field is absent
ChatInputs ==
    {[question |-> "What is the refund policy?", history |-> <<>>],
     [question |-> "Does that apply to international orders?",
      history |-> <<<<[role |-> "user", content |-> "What is the refund policy?"],
                     [role |-> "assistant", content |-> "30 days (page 5)."]>>>>],
     [question |-> "What is the refund policy?", history |-> << <<>> >>],
     [question |-> "Does that apply to international orders?",
      history |-> <<<<[content |-> "and gift cards?"]>>>>]}

\* what the language model may answer
AnswerVariants == {"Cited answer to: ", "I do not know. Asked: "}

\* what a failing downstream call raises
ChatExceptions(service) ==
    IF service = "embed"
    THEN {[type |-> "ConnectError", message |-> "All connection attempts failed"]}
    ELSE IF service = "search"
    THEN {[type |-> "UnexpectedResponse", message |-> "Unexpected Response: 404 (Not Found)"]}
    ELSE {[type |-> "HTTPStatusError", message |-> "Server error '503 Service Unavailable'"]}

(***************************************************************************)
(* The steps of the chat API                                               *)
(***************************************************************************)
\* lifespan: config = Config(); pipeline = RAGPipeline(config)
Startup ==
    /\ pipeline = <<>>
    /\ \E top_k \in TopKs : pipeline' = <<[config |-> Config(top_k)]>>
    /\ UNCHANGED <<qdrant_points, req, health_replies>>
    /\ UNCHANGED <<chunkVars, upsertVars, embedVars, runVars, laterVars>>

\* GET /health
GetHealth ==
    /\ health_replies' = health_replies \cup
           {[constructed |-> pipeline # <<>>, reply |-> Health(pipeline)]}
    /\ UNCHANGED <<pipeline, qdrant_points, req>>
    /\ UNCHANGED <<chunkVars, upsertVars, embedVars, runVars, laterVars>>

\* POST /chat while the global pipeline is None
ChatNotInitialized(r, in) ==
    /\ req[r].pc = "none"
    /\ pipeline = <<>>
    /\ req' = [req EXCEPT ![r] =
                  NotInitialized([@ EXCEPT !.question = in.question,
                                           !.history = in.history])]
    /\ UNCHANGED <<pipeline, qdrant_points, health_replies>>
    /\ UNCHANGED <<chunkVars, upsertVars, embedVars, runVars, laterVars>>

\* POST /chat with a pipeline: chat calls pipeline.query, which runs up to
\* the await of its first downstream request
ChatQuery(r, in) ==
    /\ req[r].pc = "none"
    /\ pipeline # <<>>
    /\ req' = [req EXCEPT ![r] = StartQuery(@, in.question, in.history)]
    /\ UNCHANGED <<pipeline, qdrant_points, health_replies>>
    /\ UNCHANGED <<chunkVars, upsertVars, embedVars, runVars, laterVars>>

\* the embedding request fails
EmbedQuestionFails(r) ==
    /\ req[r].pc = "embed"
    /\ \E exc \in ChatExceptions("embed") :
           req' = [req EXCEPT ![r] = Propagate(@, "embed", exc)]
    /\ UNCHANGED <<pipeline, qdrant_points, health_replies>>
    /\ UNCHANGED <<chunkVars, upsertVars, embedVars, runVars, laterVars>>

\* The embedding arrives; the search (a blocking call) succeeds; the
\* prompt is built and the completion request is sent
EmbedQuestionReturns(r) ==
    /\ req[r].pc = "embed"
    /\ LET config == pipeline[1].config
           inputs == req[r].calls[Len(req[r].calls)].request
           rec == AfterEmbed(req[r], ServerEmbed(inputs), config)
           results == QueryPoints(qdrant_points, rec.query_embedding[1],
                                  config.rag_top_k)
       IN  req' = [req EXCEPT ![r] = AfterSearch(rec, results, config)]
    /\ UNCHANGED <<pipeline, qdrant_points, health_replies>>
    /\ UNCHANGED <<chunkVars, upsertVars, embedVars, runVars, laterVars>>

\* the embedding arrives and the search fails
SearchFails(r) ==
    /\ req[r].pc = "embed"
    /\ LET config == pipeline[1].config
           inputs == req[r].calls[Len(req[r].calls)].request
           rec == AfterEmbed(req[r], ServerEmbed(inputs), config)
       IN  \E exc \in ChatExceptions("search") :
               req' = [req EXCEPT ![r] = Propagate(rec, "search", exc)]
    /\ UNCHANGED <<pipeline, qdrant_points, health_replies>>
    /\ UNCHANGED <<chunkVars, upsertVars, embedVars, runVars, laterVars>>

\* the completion arrives: query returns and chat answers 200
GenerateReturns(r) ==
    /\ req[r].pc = "generate"
    /\ LET body == req[r].calls[Len(req[r].calls)].request
       IN  \E variant \in AnswerVariants :
               req' = [req EXCEPT ![r] =
                          AfterGenerate(@, LlmReply(body, variant),
                                        pipeline[1].config)]
    /\ UNCHANGED <<pipeline, qdrant_points, health_replies>>
    /\ UNCHANGED <<chunkVars, upsertVars, embedVars, runVars, laterVars>>

\* the completion request fails
GenerateFails(r) ==
    /\ req[r].pc = "generate"
    /\ \E exc \in ChatExceptions("generate") :
           req' = [req EXCEPT ![r] = Propagate(@, "generate", exc)]
    /\ UNCHANGED <<pipeline, qdrant_points, health_replies>>
    /\ UNCHANGED <<chunkVars, upsertVars, embedVars, runVars, laterVars>>

ChatInit ==
    /\ ChunkIdle
    /\ UpsertIdle
    /\ EmbedIdle
    /\ RunsIdle
    /\ LaterIdle
    /\ pipeline = <<>>
    /\ qdrant_points \in IndexedCollections
    /\ req = [r \in Requests |-> NoRequest]
    /\ health_replies = {}

ChatArrives == \E r \in Requests : \E in \in ChatInputs : ChatQuery(r, in)

ChatArrivesEarly ==
    \E r \in Requests : \E in \in ChatInputs : ChatNotInitialized(r, in)

ChatNext ==
    \/ Startup
    \/ GetHealth
    \/ ChatArrivesEarly
    \/ ChatArrives
    \/ \E r \in Requests : EmbedQuestionFails(r)
    \/ \E r \in Requests : EmbedQuestionReturns(r)
    \/ \E r \in Requests : SearchFails(r)
    \/ \E r \in Requests : GenerateReturns(r)
    \/ \E r \in Requests : GenerateFails(r)

SpecChat == ChatInit /\ [][ChatNext]_vars

(***************************************************************************)
(* Properties of RAGPipeline.query and build_prompt                        *)
(***************************************************************************)
\* the services a request called, in call order
ServicesCalled(rec) == [k \in 1 .. Len(rec.calls) |-> rec.calls[k].service]

QueryOrder == <<"embed", "search", "generate">>

\* C12: the downstream calls of a query are a prefix of embed, search,
\* generate, each made at most once; the search is sent with the vector
\* the embedding call of this query returned, the completion request with
\* the prompt built from the search results of this query, and the sources
\* are packaged from those same results after the completion returned.
C12_FixedOrder ==
    \A r \in Requests :
        LET rec == req[r]
            n == Len(rec.calls)
        IN  /\ n <= 3
            /\ ServicesCalled(rec) = SubSeq(QueryOrder, 1, n)
            /\ n >= 2 =>
                   /\ rec.query_embedding =
                          <<ServerEmbed(rec.calls[1].request)[1]>>
                   /\ rec.calls[2].request.query = rec.query_embedding[1]
            /\ n < 2 => rec.search_results = <<>>
            /\ n = 3 =>
                   /\ rec.search_results =
                          <<QueryPoints(qdrant_points, rec.calls[2].request.query,
                                        rec.calls[2].request.limit)>>
                   /\ rec.calls[3].request.messages =
                          BuildPrompt(rec.question, rec.search_results[1],
                                      rec.history)
            /\ rec.result # <<>> =>
                   /\ n = 3
                   /\ \E variant \in AnswerVariants :
                          rec.result[1].answer =
                              LlmReply(rec.calls[3].request, variant)
                                  .choices[1].message.content
                   /\ Len(rec.result[1].sources) = Len(rec.search_results[1])
                   /\ \A k \in 1 .. Len(rec.search_results[1]) :
                          rec.result[1].sources[k] =
                              MakeSource(rec.search_results[1][k])

\* a query that made its three calls and returned an answer with sources
C12_Witness ==
    \E r \in Requests :
        /\ req[r].pc = "done"
        /\ req[r].result # <<>>
        /\ ServicesCalled(req[r]) = QueryOrder
        /\ Len(req[r].result[1].sources) >= 2

\* C13: when the embedding, the search or the generation call of a query
\* fails, the query returns neither an answer nor sources, the failed call
\* is the last call it made, and no completion is requested after a failed
\* embedding or search.
C13_FailureFailsQuery ==
    \A r \in Requests :
        req[r].failed # <<>> =>
            LET rec == req[r]
                service == rec.failed[1].service
            IN  /\ rec.pc = "done"
                /\ rec.result = <<>>
                /\ rec.response # <<>>
                /\ rec.response[1].status_code = 500
                /\ rec.calls # <<>>
                /\ rec.calls[Len(rec.calls)].service = service
                /\ service \in {"embed", "search"} =>
                       CallsTo(rec, "generate") = 0
                /\ service = "embed" => CallsTo(rec, "search") = 0

\* a query whose search failed after its question was embedded
C13_Witness ==
    \E r \in Requests :
        /\ req[r].pc = "done"
        /\ req[r].failed # <<>>
        /\ req[r].failed[1].service = "search"
        /\ req[r].query_embedding # <<>>
        /\ req[r].result = <<>>

\* the history messages a request carries: none when the field is absent
HistoryOf(rec) == IF rec.history = <<>> THEN <<>> ELSE rec.history[1]

\* the line the prompt shows for the k-th search result
NumberedResult(k, result) ==
    "[" \o ToString(k) \o "] (Page "
        \o (IF "page_number" \in DOMAIN result.payload
            THEN ToString(result.payload.page_number) ELSE "unknown")
        \o "): "
        \o (IF "text" \in DOMAIN result.payload THEN result.payload.text ELSE "")

\* the first n results, numbered 1 .. n, a blank line between two of them
RECURSIVE NumberedResults(_, _)
NumberedResults(results, n) ==
    IF n = 0 THEN ""
    ELSE IF n = 1 THEN NumberedResult(1, results[1])
    ELSE NumberedResults(results, n - 1) \o "\n\n"
             \o NumberedResult(n, results[n])

\* C14: for a history of h messages (h = 0 when it is absent) and n search
\* results build_prompt returns h + 2 messages: the system instruction,
\* the h history messages in their order, and one user message holding
\* the n results numbered 1 .. n in search order, then the question and
\* the citation reminder.
C14_PromptShape ==
    \A r \in Requests :
        req[r].search_results # <<>> =>
            LET rec == req[r]
                hist == HistoryOf(rec)
                h == Len(hist)
                results == rec.search_results[1]
                msgs == rec.messages
            IN  /\ Len(msgs) = h + 2
                /\ msgs[1] = [role |-> "system", content |-> system_prompt]
                /\ \A k \in 1 .. h :
                       /\ DOMAIN hist[k] = {"role", "content"} =>
                              msgs[k + 1] = hist[k]
                       /\ "content" \in DOMAIN hist[k] =>
                              msgs[k + 1].content = hist[k].content
                /\ msgs[h + 2].role = "user"
                /\ msgs[h + 2].content =
                       "Context:\n" \o NumberedResults(results, Len(results))
                           \o "\n\nQuestion: " \o rec.question
                           \o "\n\nAnswer based on the context above. Cite page numbers."

\* a prompt for two history messages and two search results
C14_Witness ==
    \E r \in Requests :
        /\ req[r].search_results # <<>>
        /\ Len(HistoryOf(req[r])) = 2
        /\ Len(req[r].search_results[1]) = 2
        /\ Len(req[r].messages) = 4

\* C15: a successful query returns one source per search result, in the
\* order of the results, the k-th source carrying the text, page number
\* and source of the k-th result; there are at most top_k sources, and the
\* /chat response reports their number as chunks_retrieved.
C15_SourcesFollowResults ==
    \A r \in Requests :
        req[r].result # <<>> =>
            LET rec == req[r]
                results == rec.search_results[1]
                sources == rec.result[1].sources
            IN  /\ Len(sources) = Len(results)
                /\ \A k \in 1 .. Len(results) :
                       /\ "text" \in DOMAIN results[k].payload =>
                              sources[k].text = results[k].payload.text
                       /\ "page_number" \in DOMAIN results[k].payload =>
                              sources[k].page_number = results[k].payload.page_number
                       /\ "source" \in DOMAIN results[k].payload =>
                              sources[k].source = results[k].payload.source
                /\ Len(sources) <= pipeline[1].config.rag_top_k
                /\ rec.response # <<>>
                /\ rec.response[1].status_code = 200
                /\ rec.response[1].sources = sources
                /\ rec.response[1].chunks_retrieved = Len(sources)

\* top_k = 2 with four points indexed: two sources, the better match first
C15_Witness ==
    \E r \in Requests :
        /\ req[r].result # <<>>
        /\ pipeline[1].config.rag_top_k = 2
        /\ Cardinality(qdrant_points) > 2
        /\ Len(req[r].result[1].sources) = 2
        /\ req[r].result[1].sources[1].score > req[r].result[1].sources[2].score
        /\ req[r].response[1].chunks_retrieved = 2

\* C16: a search that finds no point does not fail the query: the prompt
\* is built with an empty context, the completion is requested once, and
\* the answer comes back with an empty list of sources.
C16_NoResults ==
    \A r \in Requests :
        LET rec == req[r]
        IN  (/\ rec.query_embedding # <<>>
             /\ QueryPoints(qdrant_points, rec.query_embedding[1],
                            pipeline[1].config.rag_top_k) = <<>>
             /\ \A f \in {rec.failed[k] : k \in 1 .. Len(rec.failed)} :
                    f.exc \notin ChatExceptions("search"))
            =>
            /\ rec.search_results = << <<>> >>
            /\ CallsTo(rec, "generate") = 1
            /\ rec.messages[Len(rec.messages)].content =
                   "Context:\n" \o "\n\nQuestion: " \o rec.question
                       \o "\n\nAnswer based on the context above. Cite page numbers."
            /\ rec.failed # <<>> => rec.failed[1].service = "generate"
            /\ (rec.pc = "done" /\ rec.failed = <<>>) =>
                   /\ rec.result # <<>>
                   /\ rec.result[1].sources = <<>>
                   /\ \E variant \in AnswerVariants :
                          rec.result[1].answer =
                              variant \o rec.messages[Len(rec.messages)].content
                   /\ rec.response[1].status_code = 200
                   /\ rec.response[1].chunks_retrieved = 0

\* an answered query over an empty collection
C16_Witness ==
    \E r \in Requests :
        /\ qdrant_points = {}
        /\ req[r].pc = "done"
        /\ req[r].search_results = << <<>> >>
        /\ req[r].result # <<>>
        /\ req[r].result[1].sources = <<>>
        /\ req[r].response[1].status_code = 200

\* what a query on its own computes for a request, from the request's
\* question and history and the replies of the services to it
OwnResults(rec) ==
    QueryPoints(qdrant_points,
                EmbeddingOf("search_query: " \o rec.question),
                pipeline[1].config.rag_top_k)

OwnPrompt(rec) ==
    "Context:\n" \o NumberedResults(OwnResults(rec), Len(OwnResults(rec)))
        \o "\n\nQuestion: " \o rec.question
        \o "\n\nAnswer based on the context above. Cite page numbers."

\* every request in flight or answered holds the values of its own query
EachQueryOnItsOwn ==
    \A r \in Requests :
        LET rec == req[r]
        IN  /\ rec.search_results # <<>> =>
                   /\ rec.search_results[1] = OwnResults(rec)
                   /\ Len(rec.messages) = Len(HistoryOf(rec)) + 2
                   /\ rec.messages[Len(rec.messages)].content = OwnPrompt(rec)
                   /\ rec.calls[3].request.messages = rec.messages
            /\ rec.result # <<>> =>
                   /\ \E variant \in AnswerVariants :
                          rec.result[1].answer = variant \o OwnPrompt(rec)
                   /\ Len(rec.result[1].sources) = Len(OwnResults(rec))
                   /\ \A k \in 1 .. Len(OwnResults(rec)) :
                          rec.result[1].sources[k].text =
                              Get(OwnResults(rec)[k].payload, "text", "")

\* a step of a query writes no field of the pipeline and leaves the
\* question and the history of every request that has arrived as they are
QueryWritesNothingShared ==
    /\ pipeline # <<>> => pipeline' = pipeline
    /\ qdrant_points' = qdrant_points
    /\ \A r \in Requests :
           req[r].pc # "none" =>
               /\ req'[r].question = req[r].question
               /\ req'[r].history = req[r].history

\* C17: queries interleaved on the one shared pipeline do not interfere:
\* no step writes a pipeline field or changes a caller's history, and the
\* search results, prompt, answer and sources of every request are those
\* its own question and history and the replies to its own calls give.
C17_NoInterference ==
    [](EachQueryOnItsOwn) /\ [][QueryWritesNothingShared]_vars

\* two queries with different questions in flight at once, each waiting
\* for its completion with its own search results
C17_Witness ==
    /\ req[1].pc = "generate"
    /\ req[2].pc = "generate"
    /\ req[1].question # req[2].question
    /\ req[1].search_results # req[2].search_results
    /\ req[1].search_results[1] # <<>>
    /\ req[2].search_results[1] # <<>>

\* C18: a POST /chat that finds no pipeline is answered 503 and makes no
\* downstream call, and is never answered 500; a POST /chat that finds the
\* pipeline is answered 200 or 500, never 503.
C18_NotReadyIs503 ==
    \A r \in Requests :
        req[r].response # <<>> =>
            LET rec == req[r]
            IN  IF rec.calls = <<>>
                THEN /\ rec.response[1] = Http503
                     /\ rec.query_embedding = <<>>
                     /\ rec.search_results = <<>>
                     /\ rec.result = <<>>
                     /\ rec.failed = <<>>
                ELSE /\ rec.response[1].status_code \in {200, 500}
                     /\ pipeline # <<>>

\* one request turned away before startup, another answered after it
C18_Witness ==
    /\ pipeline # <<>>
    /\ req[1].response # <<>>
    /\ req[1].response[1].status_code = 503
    /\ req[1].calls = <<>>
    /\ req[2].response # <<>>
    /\ req[2].response[1].status_code = 500
    /\ req[2].failed[1].service = "generate"

\* C19 as stated: GET /health says healthy only once the pipeline is
\* constructed and answers 503 before.
C19_HealthReflectsPipeline ==
    \A h \in health_replies :
        /\ h.reply.body.status = "healthy" => h.constructed
        /\ ~h.constructed => h.reply.status_code = 503

\* C19: GET /health answers 200 {status: "healthy"} on every call, before
\* as well as after the pipeline is constructed.
C19_HealthAlwaysHealthy ==
    \A h \in health_replies :
        /\ h.reply.status_code = 200
        /\ h.reply.body = [status |-> "healthy"]

\* /health was asked before the pipeline existed and again after
C19_Witness ==
    /\ \E h \in health_replies : ~h.constructed
    /\ \E h \in health_replies : h.constructed

(***************************************************************************)
(* Two ingestion runs in upsert_chunks on the same collection              *)
(***************************************************************************)
\* run r calls upsert_chunks(chunks, embeddings) and builds its points
RunCallsUpsertChunks(r) ==
    /\ run_pc[r] = "idle"
    /\ up_run' = up_run + 1
    /\ IF ~LengthsMatch(chunks, embeddings)
       THEN /\ run_pc' = [run_pc EXCEPT ![r] = "raised"]
            /\ run_points' = run_points
       ELSE /\ run_pc' = [run_pc EXCEPT ![r] = "loop"]
            /\ run_points' = [run_points EXCEPT ![r] = BuildPoints(chunks, embeddings)]
    /\ run_i' = [run_i EXCEPT ![r] = 0]
    /\ UNCHANGED <<collection, chunks, embeddings, points, i, up_pc, up_error,
                   up_calls, up_coll0, up_prev>>
    /\ UNCHANGED <<chunkVars, embedVars, chatVars, laterVars>>

\* one batch of run r reaches the store
RunUpsertBatch(r) ==
    /\ run_pc[r] = "loop"
    /\ run_i[r] < Len(run_points[r])
    /\ collection' = StoreUpsert(collection, BatchAt(run_points[r], run_i[r]))
    /\ run_i' = [run_i EXCEPT ![r] = @ + batch_size]
    /\ UNCHANGED <<run_pc, run_points>>
    /\ UNCHANGED <<chunks, embeddings, points, i, up_pc, up_error, up_calls,
                   up_run, up_coll0, up_prev>>
    /\ UNCHANGED <<chunkVars, embedVars, chatVars, laterVars>>

\* client.upsert of run r raises, with the batch applied or not
RunUpsertBatchFails(r) ==
    /\ run_pc[r] = "loop"
    /\ run_i[r] < Len(run_points[r])
    /\ \E applied \in BOOLEAN :
          collection' = IF applied
                        THEN StoreUpsert(collection,
                                         BatchAt(run_points[r], run_i[r]))
                        ELSE collection
    /\ run_pc' = [run_pc EXCEPT ![r] = "raised"]
    /\ UNCHANGED <<run_i, run_points>>
    /\ UNCHANGED <<chunks, embeddings, points, i, up_pc, up_error, up_calls,
                   up_run, up_coll0, up_prev>>
    /\ UNCHANGED <<chunkVars, embedVars, chatVars, laterVars>>

\* the loop of run r is exhausted
RunUpsertReturn(r) ==
    /\ run_pc[r] = "loop"
    /\ run_i[r] >= Len(run_points[r])
    /\ run_pc' = [run_pc EXCEPT ![r] = "returned"]
    /\ UNCHANGED <<run_i, run_points>>
    /\ UNCHANGED <<collection, chunks, embeddings, points, i, up_pc, up_error,
                   up_calls, up_run, up_coll0, up_prev>>
    /\ UNCHANGED <<chunkVars, embedVars, chatVars, laterVars>>

\* what both runs ingest: 2, 101 and 201 chunks, 150 chunks whose last 50
\* repeat the ids of the first 50, and a call with unequal lengths
RunInputs ==
    {[chunks |-> ChunksOfPages(docs), embeddings |-> EmbeddingsOf(ChunksOfPages(docs))]
        : docs \in {<<PageA(21)>>,
                    <<PageA(69), PageB(70)>>,
                    <<PageA(69), PageB(69), PageC(69), PageD(69), PageE(20)>>,
                    <<PageA(69), PageB(69), PageACopy(69)>>}}
    \cup {[chunks |-> ChunksOfPages(<<PageA(21)>>),
           embeddings |-> EmbeddingsOf(ChunksOfPages(<<PageA(20)>>))]}

RunsInit ==
    /\ ChunkIdle
    /\ EmbedIdle
    /\ ChatIdle
    /\ LaterIdle
    /\ up_run = 0
    /\ collection \in InitialCollections
    /\ \E in \in RunInputs : chunks = in.chunks /\ embeddings = in.embeddings
    /\ points = <<>>
    /\ i = 0
    /\ up_pc = "idle"
    /\ up_error = <<>>
    /\ up_calls = <<>>
    /\ up_coll0 = collection
    /\ up_prev = <<>>
    /\ RunsIdle

RunsNext ==
    \/ \E r \in Runs : RunCallsUpsertChunks(r)
    \/ \E r \in Runs : RunUpsertBatch(r)
    \/ \E r \in Runs : RunUpsertBatchFails(r)
    \/ \E r \in Runs : RunUpsertReturn(r)

SpecRuns == RunsInit /\ [][RunsNext]_vars

(***************************************************************************)
(* Properties of concurrent runs                                           *)
(***************************************************************************)
\* the collection a single run over ps leaves when started on coll0: for
\* every id of ps the last point of that id, and the untouched old points
SingleRunState(coll0, ps) ==
    {q \in coll0 : \A k \in DOMAIN ps : ps[k].id # q.id}
        \cup {ps[k] : k \in {m \in DOMAIN ps :
                                \A n \in DOMAIN ps : n > m => ps[n].id # ps[m].id}}

\* C20: when both runs have upserted the same chunks and embeddings and
\* returned, the collection is what one run alone leaves, whatever the
\* order in which their batches reached the store.
C20_ConcurrentRunsAgree ==
    (\A r \in Runs : run_pc[r] = "returned") =>
        collection = SingleRunState(up_coll0, BuildPoints(chunks, embeddings))

\* both runs returned after their two batches each, the second batch
\* rewriting ids of the first, on a collection that held older points
C20_Witness ==
    /\ \A r \in Runs : run_pc[r] = "returned"
    /\ Len(chunks) = 150
    /\ run_i[1] = 2 * batch_size
    /\ run_i[2] = 2 * batch_size
    /\ up_coll0 # {}
    /\ Cardinality(collection) < Len(chunks)

(***************************************************************************)
(* Points of other source documents                                        *)
(***************************************************************************)
\* the source documents of the chunks being upserted
SourcesOf(cs) == {cs[k].metadata.source : k \in DOMAIN cs}

\* C21: an upsert_chunks call on the chunks of some source documents
\* leaves every point stored for another source document as it was.
C21_UnrelatedUntouched ==
    \A q \in up_coll0 :
        q.payload.source \notin SourcesOf(chunks) => q \in collection

(***************************************************************************)
(* vector_store.VectorStore.ensure_collection, called by two runs          *)
(***************************************************************************)
\* ensure_collection calls one run may make
MaxEnsureCalls == 2

\* the default of Config.qdrant_collection
qdrant_collection == "pdf_chunks"

\* [c.name for c in self.client.get_collections().collections]: the
\* server also holds a collection of another application
GetCollections(qd) ==
    IF qd = <<>> THEN {"notes"} ELSE {"notes", qd[1].name}

\* a check that always asks for the collection to be created
CollectionExistsNever(name, existing_collections) == FALSE

\* `self.collection_name in existing_collections`
CollectionExists(name, existing_collections) == name \in existing_collections

\* an existing collection is accepted only with the configured dimension
ExistingAcceptedIfSameSize(dimension, qd) == qd[1].size = dimension

\* The branch taken for an existing collection logs and returns: whether
\* it is accepted does not depend on its vector size, which is not read
ExistingAccepted(dimension, qd) == TRUE

\* VectorParams(size=self.vector_dimension, distance=Distance.COSINE)
CreatedCollection(name, dimension) ==
    [name |-> name, size |-> dimension, distance |-> "Cosine"]

\* ensure_collection of run r up to the branch on existing_collections:
\* the collection is listed as existing and the call returns
EnsureFindsCollection(r) ==
    /\ en_pc[r] \in {"idle", "returned"}
    /\ en_count[r] < MaxEnsureCalls
    /\ CollectionExists(qdrant_collection, GetCollections(qd_collection))
    /\ en_count' = [en_count EXCEPT ![r] = @ + 1]
    /\ en_existing' = [en_existing EXCEPT ![r] = GetCollections(qd_collection)]
    /\ en_log' = Append(en_log, [run |-> r, call |-> "get_collections",
                                 outcome |-> "ok"])
    /\ en_pc' = [en_pc EXCEPT ![r] =
                    IF ExistingAccepted(en_dim[r], qd_collection)
                    THEN "returned" ELSE "raised"]
    /\ UNCHANGED <<qd_collection, en_dim>>
    /\ UNCHANGED <<chunkVars, upsertVars, embedVars, chatVars, runVars,
                   docVars, ingestVars, cliVars>>

\* the collection is not listed: run r goes on to create_collection
EnsureFindsNothing(r) ==
    /\ en_pc[r] \in {"idle", "returned"}
    /\ en_count[r] < MaxEnsureCalls
    /\ ~CollectionExists(qdrant_collection, GetCollections(qd_collection))
    /\ en_count' = [en_count EXCEPT ![r] = @ + 1]
    /\ en_existing' = [en_existing EXCEPT ![r] = GetCollections(qd_collection)]
    /\ en_log' = Append(en_log, [run |-> r, call |-> "get_collections",
                                 outcome |-> "ok"])
    /\ en_pc' = [en_pc EXCEPT ![r] = "listed"]
    /\ UNCHANGED <<qd_collection, en_dim>>
    /\ UNCHANGED <<chunkVars, upsertVars, embedVars, chatVars, runVars,
                   docVars, ingestVars, cliVars>>

\* create_collection of run r reaches a server without the collection
EnsureCreates(r) ==
    /\ en_pc[r] = "listed"
    /\ qd_collection = <<>>
    /\ qd_collection' = <<CreatedCollection(qdrant_collection, en_dim[r])>>
    /\ en_log' = Append(en_log, [run |-> r, call |-> "create_collection",
                                 outcome |-> "ok"])
    /\ en_pc' = [en_pc EXCEPT ![r] = "returned"]
    /\ UNCHANGED <<en_existing, en_dim, en_count>>
    /\ UNCHANGED <<chunkVars, upsertVars, embedVars, chatVars, runVars,
                   docVars, ingestVars, cliVars>>

\* create_collection of run r reaches a server that has the collection by
\* now: the server answers 409 and the client raises UnexpectedResponse,
\* which leaves ensure_collection
EnsureCreateConflicts(r) ==
    /\ en_pc[r] = "listed"
    /\ qd_collection # <<>>
    /\ en_log' = Append(en_log, [run |-> r, call |-> "create_collection",
                                 outcome |-> "conflict"])
    /\ en_pc' = [en_pc EXCEPT ![r] = "raised"]
    /\ UNCHANGED <<qd_collection, en_existing, en_dim, en_count>>
    /\ UNCHANGED <<chunkVars, upsertVars, embedVars, chatVars, runVars,
                   docVars, ingestVars, cliVars>>

\* the dimensions a run may be configured with
Dimensions == {embedding_dimension, 384}

\* the collection before the runs: absent, or created with some dimension
\* and holding the points of an earlier ingestion
EnsureInit ==
    /\ ChunkIdle
    /\ EmbedIdle
    /\ ChatIdle
    /\ RunsIdle
    /\ DocIdle
    /\ IngestIdle
    /\ CliIdle
    /\ up_run = 0
    /\ \/ qd_collection = <<>> /\ collection = {}
       \/ /\ \E d \in Dimensions :
                 qd_collection = <<CreatedCollection(qdrant_collection, d)>>
          /\ collection \in InitialCollections
    /\ chunks = <<>>
    /\ embeddings = <<>>
    /\ points = <<>>
    /\ i = 0
    /\ up_pc = "idle"
    /\ up_error = <<>>
    /\ up_calls = <<>>
    /\ up_coll0 = collection
    /\ up_prev = <<>>
    /\ en_pc = [r \in Runs |-> "idle"]
    /\ en_existing = [r \in Runs |-> {}]
    /\ en_dim \in [Runs -> Dimensions]
    /\ en_count = [r \in Runs |-> 0]
    /\ en_log = <<>>

EnsureNext ==
    \/ \E r \in Runs : EnsureFindsCollection(r)
    \/ \E r \in Runs : EnsureFindsNothing(r)
    \/ \E r \in Runs : EnsureCreates(r)
    \/ \E r \in Runs : EnsureCreateConflicts(r)

SpecEnsure == EnsureInit /\ [][EnsureNext]_vars

(***************************************************************************)
(* Properties of ensure_collection                                         *)
(***************************************************************************)
\* the create_collection calls made so far
CreateCalls == {k \in 1 .. Len(en_log) : en_log[k].call = "create_collection"}

\* run r starts an ensure_collection call in this step
EnsureCalled(r) == en_count'[r] = en_count[r] + 1

\* C23: a call of ensure_collection that finds the collection issues no
\* create call and leaves the collection and its points as they are; a
\* create call is issued only by a run whose listing did not show the
\* collection; an existing collection is never changed by any call.
C23_EnsureIdempotent ==
    [][\A r \in Runs :
          /\ (EnsureCalled(r) /\ qd_collection # <<>>) =>
                 /\ en_pc'[r] = "returned"
                 /\ qd_collection' = qd_collection
                 /\ collection' = collection
                 /\ en_log' = Append(en_log, [run |-> r, call |-> "get_collections",
                                              outcome |-> "ok"])
          /\ (Len(en_log') > Len(en_log)
                  /\ en_log'[Len(en_log')].call = "create_collection"
                  /\ en_log'[Len(en_log')].run = r) =>
                 qdrant_collection \notin en_existing[r]
          /\ qd_collection # <<>> =>
                 qd_collection' = qd_collection /\ collection' = collection
      ]_vars

\* one run called twice: the first call created the collection, the
\* second found it
C23_Witness ==
    \E r \in Runs :
        /\ en_count[r] = 2
        /\ en_pc[r] = "returned"
        /\ Len(en_log) = 3
        /\ en_log[2] = [run |-> r, call |-> "create_collection", outcome |-> "ok"]
        /\ en_log[3] = [run |-> r, call |-> "get_collections", outcome |-> "ok"]

\* C24 as stated: ensure_collection does not return normally over an
\* existing collection whose vector size differs from the configured one.
C24_MismatchFails ==
    \A r \in Runs :
        (en_pc[r] = "returned" /\ qd_collection # <<>>) =>
            qd_collection[1].size = en_dim[r]

\* C24: a call of ensure_collection that finds a collection of the
\* configured name returns normally and leaves it unchanged, also when
\* its vector size differs from the configured dimension.
C24_ExistingAcceptedAsIs ==
    [][\A r \in Runs :
          (/\ EnsureCalled(r)
           /\ qd_collection # <<>>
           /\ qd_collection[1].size # en_dim[r]) =>
              /\ en_pc'[r] = "returned"
              /\ qd_collection'[1].size = qd_collection[1].size
      ]_vars

\* a run configured for 384 dimensions returned over a collection of 768
C24_Witness ==
    \E r \in Runs :
        /\ en_pc[r] = "returned"
        /\ en_dim[r] = 384
        /\ qd_collection # <<>>
        /\ qd_collection[1].size = embedding_dimension
        /\ \A k \in CreateCalls : en_log[k].run # r

\* C29: across both runs create_collection is issued at most once and no
\* run ends with an exception.
C29_CreatedOnceNoFailure ==
    /\ Cardinality(CreateCalls) <= 1
    /\ \A r \in Runs : en_pc[r] # "raised"

(***************************************************************************)
(* ingestion main(): one run after another over a directory of PDFs        *)
(***************************************************************************)
\* ingestion runs made one after another
MaxIngestRuns == 2

\* a PDF file of the directory: its name, the text of its pages, and
\* whether pymupdf can read it
PdfFile(name, pages, readable) ==
    [name |-> name, pages |-> pages, readable |-> readable]

\* the loop of parse_pdf from page k on: a page whose stripped text is
\* empty is skipped, every other page becomes a Document numbered from one
RECURSIVE ParsePages(_, _, _)
ParsePages(pages, k, pdf_filename) ==
    IF k > Len(pages)
    THEN <<>>
    ELSE (IF pages[k].ntokens = 0
          THEN <<>>
          ELSE <<MakeDocument(pages[k], k, pdf_filename)>>)
         \o ParsePages(pages, k + 1, pdf_filename)

\* parse_pdf(pdf_path)
ParsePdf(pdf) == ParsePages(pdf.pages, 1, pdf.name)

\* a guard that never ends the run early
NothingToIngestNever(found) == FALSE

\* `if not pdf_files` and `if not all_chunks`
NothingToIngest(found) == found = <<>>

\* an existing collection emptied by ensure_collection
PointsAfterEnsureRecreated(coll) == {}

\* ensure_collection returns or creates and does nothing else: the points
\* of an existing collection stay as they are
PointsAfterEnsure(coll) == coll

\* [chunk.text for chunk in all_chunks]
ChunkTexts(cs) == [k \in 1 .. Len(cs) |-> cs[k].text]

\* f"{prefix}{text}" with the default prefix of embed_texts
DocumentPrefixed(ts) == [k \in 1 .. Len(ts) |-> <<"search_document: ", ts[k]>>]

\* a call of the run on the vector store or the embedding server
IngestCall(name, n, outcome) == [call |-> name, n |-> n, outcome |-> outcome]

\* main() up to the loop over the PDF files: the directory does not exist,
\* holds no PDF, or holds some
IngestStart(dir) ==
    /\ ing_pc \in {"idle", "done", "exit0", "exit1", "raised"}
    /\ ing_run < MaxIngestRuns
    /\ ing_run' = ing_run + 1
    /\ ing_dir' = dir
    /\ ing_file' = 0
    /\ ing_chunks' = <<>>
    /\ ing_embeddings' = <<>>
    /\ ing_offset' = 0
    /\ ing_calls' = <<>>
    /\ ing_coll0' = collection
    /\ ing_pc' = IF dir = <<>> THEN "exit1"
                 ELSE IF NothingToIngest(dir[1]) THEN "exit0"
                 ELSE "parse"
    /\ UNCHANGED <<chunkVars, upsertVars, embedVars, chatVars, runVars,
                   docVars, ensureVars, cliVars>>

\* one iteration of `for pdf_path in pdf_files`: parse_pdf, chunk_documents,
\* all_chunks.extend
IngestParseAndChunk ==
    /\ ing_pc = "parse"
    /\ ing_file < Len(ing_dir[1])
    /\ ing_dir[1][ing_file + 1].readable
    /\ ing_chunks' = ing_chunks \o ChunksOfPages(ParsePdf(ing_dir[1][ing_file + 1]))
    /\ ing_file' = ing_file + 1
    /\ UNCHANGED <<ing_pc, ing_dir, ing_embeddings, ing_offset, ing_calls,
                   ing_run, ing_coll0>>
    /\ UNCHANGED <<chunkVars, upsertVars, embedVars, chatVars, runVars,
                   docVars, ensureVars, cliVars>>

\* one iteration whose parse_pdf raises: nothing catches it
IngestParseFails ==
    /\ ing_pc = "parse"
    /\ ing_file < Len(ing_dir[1])
    /\ ~ ing_dir[1][ing_file + 1].readable
    /\ ing_pc' = "raised"
    /\ UNCHANGED <<ing_dir, ing_file, ing_chunks, ing_embeddings, ing_offset,
                   ing_calls, ing_run, ing_coll0>>
    /\ UNCHANGED <<chunkVars, upsertVars, embedVars, chatVars, runVars,
                   docVars, ensureVars, cliVars>>

\* after the loop: `if not all_chunks: sys.exit(0)`
IngestLoopDone ==
    /\ ing_pc = "parse"
    /\ ing_file = Len(ing_dir[1])
    /\ ing_pc' = IF NothingToIngest(ing_chunks) THEN "exit0" ELSE "ensure"
    /\ UNCHANGED <<ing_dir, ing_file, ing_chunks, ing_embeddings, ing_offset,
                   ing_calls, ing_run, ing_coll0>>
    /\ UNCHANGED <<chunkVars, upsertVars, embedVars, chatVars, runVars,
                   docVars, ensureVars, cliVars>>

\* vector_store.ensure_collection(): the collection is listed and kept, or
\* not listed and created
IngestEnsureCollection ==
    /\ ing_pc = "ensure"
    /\ IF CollectionExists(qdrant_collection, GetCollections(qd_collection))
       THEN /\ ing_calls' = Append(ing_calls,
                                   IngestCall("get_collections", 0, "ok"))
            /\ collection' = PointsAfterEnsure(collection)
            /\ UNCHANGED qd_collection
       ELSE /\ ing_calls' = ing_calls \o
                                <<IngestCall("get_collections", 0, "ok"),
                                  IngestCall("create_collection", 0, "ok")>>
            /\ qd_collection' =
                   <<CreatedCollection(qdrant_collection, embedding_dimension)>>
            /\ UNCHANGED collection
    /\ ing_pc' = "embed"
    /\ UNCHANGED <<ing_dir, ing_file, ing_chunks, ing_embeddings, ing_offset,
                   ing_run, ing_coll0>>
    /\ UNCHANGED <<chunks, embeddings, points, i, up_pc, up_error, up_calls,
                   up_run, up_coll0, up_prev>>
    /\ UNCHANGED <<en_pc, en_existing, en_dim, en_count, en_log>>
    /\ UNCHANGED <<chunkVars, embedVars, chatVars, runVars, docVars, cliVars>>

\* ensure_collection whose get_collections raises: the store is unreachable
IngestEnsureFails ==
    /\ ing_pc = "ensure"
    /\ ing_calls' = Append(ing_calls, IngestCall("get_collections", 0, "raised"))
    /\ ing_pc' = "raised"
    /\ UNCHANGED <<ing_dir, ing_file, ing_chunks, ing_embeddings, ing_offset,
                   ing_run, ing_coll0>>
    /\ UNCHANGED <<chunkVars, upsertVars, embedVars, chatVars, runVars,
                   docVars, ensureVars, cliVars>>

\* one request of embedding_client.embed_texts(chunk_texts)
IngestEmbedBatch ==
    /\ ing_pc = "embed"
    /\ ing_offset < Len(ing_chunks)
    /\ LET batch == EmbedBatchAt(DocumentPrefixed(ChunkTexts(ing_chunks)),
                                 ing_offset, DefaultEmbedBatchSize)
       IN  /\ ing_calls' = Append(ing_calls,
                                  IngestCall("embed", Len(batch), "ok"))
           /\ ing_embeddings' = ing_embeddings \o
                  [k \in 1 .. Len(batch) |-> EmbeddingOf(batch[k][2])]
    /\ ing_offset' = ing_offset + DefaultEmbedBatchSize
    /\ UNCHANGED <<ing_pc, ing_dir, ing_file, ing_chunks, ing_run, ing_coll0>>
    /\ UNCHANGED <<chunkVars, upsertVars, embedVars, chatVars, runVars,
                   docVars, ensureVars, cliVars>>

\* one request of embed_texts that raises: main() does not catch it
IngestEmbedFails ==
    /\ ing_pc = "embed"
    /\ ing_offset < Len(ing_chunks)
    /\ ing_calls' = Append(ing_calls,
           IngestCall("embed",
                      Len(EmbedBatchAt(ChunkTexts(ing_chunks), ing_offset,
                                       DefaultEmbedBatchSize)),
                      "raised"))
    /\ ing_pc' = "raised"
    /\ UNCHANGED <<ing_dir, ing_file, ing_chunks, ing_embeddings, ing_offset,
                   ing_run, ing_coll0>>
    /\ UNCHANGED <<chunkVars, upsertVars, embedVars, chatVars, runVars,
                   docVars, ensureVars, cliVars>>

\* embed_texts returns all_embeddings; upsert_chunks is entered
IngestEmbedReturns ==
    /\ ing_pc = "embed"
    /\ ing_offset >= Len(ing_chunks)
    /\ ing_pc' = IF LengthsMatch(ing_chunks, ing_embeddings)
                 THEN "upsert" ELSE "raised"
    /\ ing_offset' = 0
    /\ UNCHANGED <<ing_dir, ing_file, ing_chunks, ing_embeddings, ing_calls,
                   ing_run, ing_coll0>>
    /\ UNCHANGED <<chunkVars, upsertVars, embedVars, chatVars, runVars,
                   docVars, ensureVars, cliVars>>

\* one client.upsert of vector_store.upsert_chunks(all_chunks, embeddings)
IngestUpsertBatch ==
    /\ ing_pc = "upsert"
    /\ ing_offset < Len(ing_chunks)
    /\ LET batch == BatchAt(BuildPoints(ing_chunks, ing_embeddings), ing_offset)
       IN  /\ ing_calls' = Append(ing_calls,
                                  IngestCall("upsert", Len(batch), "ok"))
           /\ collection' = StoreUpsert(collection, batch)
    /\ ing_offset' = ing_offset + batch_size
    /\ UNCHANGED <<ing_pc, ing_dir, ing_file, ing_chunks, ing_embeddings,
                   ing_run, ing_coll0>>
    /\ UNCHANGED <<chunks, embeddings, points, i, up_pc, up_error, up_calls,
                   up_run, up_coll0, up_prev>>
    /\ UNCHANGED <<chunkVars, embedVars, chatVars, runVars, docVars,
                   ensureVars, cliVars>>

\* one client.upsert that raises, the batch applied by the store or not
IngestUpsertFails ==
    /\ ing_pc = "upsert"
    /\ ing_offset < Len(ing_chunks)
    /\ LET batch == BatchAt(BuildPoints(ing_chunks, ing_embeddings), ing_offset)
       IN  /\ ing_calls' = Append(ing_calls,
                                  IngestCall("upsert", Len(batch), "raised"))
           /\ \E applied \in BOOLEAN :
                 collection' = IF applied
                               THEN StoreUpsert(collection, batch)
                               ELSE collection
    /\ ing_pc' = "raised"
    /\ UNCHANGED <<ing_dir, ing_file, ing_chunks, ing_embeddings, ing_offset,
                   ing_run, ing_coll0>>
    /\ UNCHANGED <<chunks, embeddings, points, i, up_pc, up_error, up_calls,
                   up_run, up_coll0, up_prev>>
    /\ UNCHANGED <<chunkVars, embedVars, chatVars, runVars, docVars,
                   ensureVars, cliVars>>

\* upsert_chunks returns; get_collection_info() reads the statistics
IngestReadStats ==
    /\ ing_pc = "upsert"
    /\ ing_offset >= Len(ing_chunks)
    /\ \E outcome \in {"ok", "raised"} :
          /\ ing_calls' = Append(ing_calls,
                                 IngestCall("get_collection", 0, outcome))
          /\ ing_pc' = IF outcome = "ok" THEN "done" ELSE "raised"
    /\ UNCHANGED <<ing_dir, ing_file, ing_chunks, ing_embeddings, ing_offset,
                   ing_run, ing_coll0>>
    /\ UNCHANGED <<chunkVars, upsertVars, embedVars, chatVars, runVars,
                   docVars, ensureVars, cliVars>>

\* Directories: missing; without PDFs; pages that give no chunk; three
\* chunks on pages 1 and 3; the same file with its first page changed; 101
\* chunks; a readable file followed by an unreadable one; another file
IngestDirs ==
    {<<>>,
     << <<>> >>,
     << <<PdfFile("a.pdf", <<Content("S", 0), Content("T", 10)>>, TRUE)>> >>,
     << <<PdfFile("a.pdf", <<Content("A", 21), Content("S", 0),
                             Content("B", 20)>>, TRUE)>> >>,
     << <<PdfFile("a.pdf", <<Content("A2", 21), Content("S", 0),
                             Content("B", 20)>>, TRUE)>> >>,
     << <<PdfFile("a.pdf", <<Content("A", 69), Content("B", 70)>>, TRUE)>> >>,
     << <<PdfFile("a.pdf", <<Content("A", 21)>>, TRUE),
          PdfFile("b.pdf", <<Content("B", 20)>>, FALSE)>> >>,
     << <<PdfFile("c.pdf", <<Content("C", 20)>>, TRUE)>> >>}

IngestInit ==
    /\ ChunkIdle
    /\ EmbedIdle
    /\ ChatIdle
    /\ RunsIdle
    /\ DocIdle
    /\ IngestIdle
    /\ CliIdle
    /\ \/ qd_collection = <<>> /\ collection = {}
       \/ /\ qd_collection =
                 <<CreatedCollection(qdrant_collection, embedding_dimension)>>
          /\ collection \in InitialCollections
    /\ chunks = <<>>
    /\ embeddings = <<>>
    /\ points = <<>>
    /\ i = 0
    /\ up_pc = "idle"
    /\ up_error = <<>>
    /\ up_calls = <<>>
    /\ up_run = 0
    /\ up_coll0 = {}
    /\ up_prev = <<>>
    /\ en_pc = [r \in Runs |-> "idle"]
    /\ en_existing = [r \in Runs |-> {}]
    /\ en_dim = [r \in Runs |-> embedding_dimension]
    /\ en_count = [r \in Runs |-> 0]
    /\ en_log = <<>>

IngestNext ==
    \/ \E dir \in IngestDirs : IngestStart(dir)
    \/ IngestParseAndChunk
    \/ IngestParseFails
    \/ IngestLoopDone
    \/ IngestEnsureCollection
    \/ IngestEnsureFails
    \/ IngestEmbedBatch
    \/ IngestEmbedFails
    \/ IngestEmbedReturns
    \/ IngestUpsertBatch
    \/ IngestUpsertFails
    \/ IngestReadStats

SpecIngest == IngestInit /\ [][IngestNext]_vars

\* the position of a call in the order of the steps of main()
CallRank(name) ==
    CASE name = "get_collections" -> 1
      [] name = "create_collection" -> 2
      [] name = "embed" -> 3
      [] name = "upsert" -> 4
      [] name = "get_collection" -> 5

\* the calls of the current run with the given name
CallsNamed(name) == {k \in DOMAIN ing_calls : ing_calls[k].call = name}

\* every file of the directory has been parsed and chunked
AllFilesChunked == ing_dir # <<>> /\ ing_file = Len(ing_dir[1])

\* the ids of the points a collection stores
StoredIds(coll) == {q.id : q \in coll}

\* C22: no step of any ingestion run removes a stored point: the set of
\* point ids only grows and the point count never decreases, also in a run
\* over a directory whose page changed or whose document was removed.
C22_NeverDeletes ==
    [][/\ StoredIds(collection) \subseteq StoredIds(collection')
       /\ Cardinality(collection') >= Cardinality(collection)]_vars

\* a second run over a directory without a.pdf has finished and points of
\* a.pdf from the first run are still stored next to the new ones
C22_Witness ==
    /\ ing_run = 2
    /\ ing_pc = "done"
    /\ \A k \in DOMAIN ing_dir[1] : ing_dir[1][k].name # "a.pdf"
    /\ CallsNamed("create_collection") = {}
    /\ \E q \in collection : q.payload.source = "a.pdf" /\ q \in ing_coll0
    /\ \E q \in collection : q.payload.source = "c.pdf" /\ q \notin ing_coll0

\* C27: the calls of a run come in the order ensure_collection, embedding
\* requests, upserts, statistics, and start only when every PDF is parsed
\* and chunked; an upsert is sent only when every chunk has its embedding;
\* a run that raised before its first upsert left the points as they were;
\* a run that found no PDF or no chunk exits with status 0 having called
\* neither the embedding service nor the vector store.
C27_RunOrder ==
    /\ \A j, k \in DOMAIN ing_calls :
          j < k => CallRank(ing_calls[j].call) <= CallRank(ing_calls[k].call)
    /\ ing_calls # <<>> =>
          /\ AllFilesChunked
          /\ ing_chunks # <<>>
          /\ ing_calls[1].call = "get_collections"
    /\ CallsNamed("upsert") # {} =>
          /\ Len(ing_embeddings) = Len(ing_chunks)
          /\ \A k \in CallsNamed("embed") : ing_calls[k].outcome = "ok"
          /\ Cardinality(CallsNamed("embed")) * DefaultEmbedBatchSize
                >= Len(ing_chunks)
    /\ CallsNamed("get_collection") # {} =>
          Cardinality(CallsNamed("upsert")) * batch_size >= Len(ing_chunks)
    /\ (ing_pc = "raised" /\ CallsNamed("upsert") = {}) =>
          collection = ing_coll0
    /\ ing_pc \in {"exit0", "exit1"} =>
          /\ ing_calls = <<>>
          /\ collection = ing_coll0
    /\ (/\ ing_pc \notin {"idle", "parse", "raised"}
        /\ ing_dir # <<>>
        /\ ing_dir[1] = <<>> \/ ing_chunks = <<>>) => ing_pc = "exit0"

\* the fourth embedding request of a run over 101 chunks failed after the
\* run created the collection: the run raised and the points are unchanged
C27_Witness ==
    /\ ing_pc = "raised"
    /\ Len(ing_chunks) > 3 * DefaultEmbedBatchSize
    /\ Len(ing_embeddings) = 3 * DefaultEmbedBatchSize
    /\ ing_calls[Len(ing_calls)] = IngestCall("embed", 5, "raised")
    /\ CallsNamed("create_collection") # {}
    /\ qd_collection # <<>>
    /\ collection = ing_coll0

(***************************************************************************)
(* pdf_parser.Document objects: construction and attribute assignment      *)
(***************************************************************************)
\* Document objects alive at once
MaxDocuments == 3

\* A Document object with what is remembered of its construction: the
\* content and content_hash passed, the fields after __post_init__, and
\* whether a field was assigned since
NewObject(content, page_number, source, content_hash) ==
    [doc |-> Document(content, page_number, source, content_hash),
     content0 |-> content,
     supplied |-> content_hash,
     hash0 |-> Document(content, page_number, source, content_hash).content_hash,
     content_assigned |-> FALSE,
     hash_assigned |-> FALSE]

\* the objects of the Documents parse_pdf returns
ParsedObjects(pdf) ==
    [k \in 1 .. Len(ParsePdf(pdf)) |->
        NewObject(ParsePdf(pdf)[k].content, ParsePdf(pdf)[k].page_number,
                  ParsePdf(pdf)[k].source, "")]

\* page texts and hashes given to the constructor and to assignments
DocContents == {Content("A", 21), Content("B", 20)}
SuppliedHashes == {"", "x"}

\* parse_pdf(pdf_path) returns its Documents
DocParsePdf(pdf) ==
    /\ Len(doc_objects) + Len(ParsedObjects(pdf)) <= MaxDocuments
    /\ doc_objects' = doc_objects \o ParsedObjects(pdf)
    /\ UNCHANGED <<chunkVars, upsertVars, embedVars, chatVars, runVars,
                   ensureVars, ingestVars, cliVars>>

\* Document(content=..., page_number=..., source=..., content_hash=...)
DocConstruct(content, content_hash) ==
    /\ Len(doc_objects) < MaxDocuments
    /\ doc_objects' = Append(doc_objects,
                             NewObject(content, 1, "x.pdf", content_hash))
    /\ UNCHANGED <<chunkVars, upsertVars, embedVars, chatVars, runVars,
                   ensureVars, ingestVars, cliVars>>

\* document.content = content: the dataclass is not frozen and defines no
\* __setattr__, so the assignment stores the value and runs nothing else
DocAssignContent(k, content) ==
    /\ k \in DOMAIN doc_objects
    /\ doc_objects' = [doc_objects EXCEPT ![k].doc.content = content,
                                          ![k].content_assigned = TRUE]
    /\ UNCHANGED <<chunkVars, upsertVars, embedVars, chatVars, runVars,
                   ensureVars, ingestVars, cliVars>>

\* document.content_hash = content_hash
DocAssignHash(k, content_hash) ==
    /\ k \in DOMAIN doc_objects
    /\ doc_objects' = [doc_objects EXCEPT ![k].doc.content_hash = content_hash,
                                          ![k].hash_assigned = TRUE]
    /\ UNCHANGED <<chunkVars, upsertVars, embedVars, chatVars, runVars,
                   ensureVars, ingestVars, cliVars>>

\* the file parse_pdf reads: two pages with text around an empty one
DocPdfs ==
    {PdfFile("a.pdf", <<Content("A", 21), Content("S", 0), Content("B", 20)>>,
             TRUE)}

DocInit ==
    /\ ChunkIdle
    /\ UpsertIdle
    /\ EmbedIdle
    /\ ChatIdle
    /\ RunsIdle
    /\ EnsureIdle
    /\ IngestIdle
    /\ CliIdle
    /\ doc_objects = <<>>

DocNext ==
    \/ \E pdf \in DocPdfs : DocParsePdf(pdf)
    \/ \E content \in DocContents, content_hash \in SuppliedHashes :
          DocConstruct(content, content_hash)
    \/ \E k \in 1 .. MaxDocuments, content \in DocContents :
          DocAssignContent(k, content)
    \/ \E k \in 1 .. MaxDocuments, content_hash \in SuppliedHashes \ {""} :
          DocAssignHash(k, content_hash)

SpecDoc == DocInit /\ [][DocNext]_vars

C26_FailureIs500 ==
    \A r \in Requests :
        LET rec == req[r]
        IN  /\ rec.failed # <<>> =>
                /\ rec.response = <<[status_code |-> 500,
                                     detail |-> rec.failed[1].exc.message]>>
                /\ DOMAIN rec.response[1] = {"status_code", "detail"}
                /\ rec.result = <<>>
            /\ (rec.pc = "done" /\ rec.calls # <<>> /\ rec.failed = <<>>) =>
                /\ rec.result # <<>>
                /\ rec.response # <<>>
                /\ rec.response[1].status_code = 200
                /\ rec.response[1].answer = rec.result[1].answer
                /\ rec.response[1].sources = rec.result[1].sources

\* one request failed in the embedding call and carries the connection
\* error's message, the other was answered 200
C26_Witness ==
    \E r, r2 \in Requests :
        /\ req[r].failed # <<>>
        /\ req[r].failed[1].service = "embed"
        /\ req[r].response[1].detail = "All connection attempts failed"
        /\ req[r2].response # <<>>
        /\ req[r2].response[1].status_code = 200

(***************************************************************************)
(* chunk_documents: the tokens no chunk holds                               *)
(***************************************************************************)
\* the token positions of a page that lie in none of its emitted chunks
Uncovered(document) ==
    {t \in 0 .. TokenCount(document) - 1 :
        \A x \in 1 .. Len(ChunksOf(document)) :
            ~ (/\ WindowOf(ChunksOf(document)[x])[1] <= t
               /\ t < WindowOf(ChunksOf(document)[x])[2])}

\* C28: with chunk_size >= 20 and 0 < overlap < chunk_size, on a page of at
\* least 20 tokens the emitted windows are the first windows of the grid
\* 0, step, 2*step, .. (only trailing windows are dropped), the tokens in
\* no chunk are the last tokens of the page, there are fewer than
\* 20 - overlap of them whenever there are any, and there are none when
\* overlap >= 19.
C28_DroppedSuffix ==
    (ck_pc = "returned" /\ chunk_size >= MinChunkTokens) =>
        \A d \in InputPages :
            TokenCount(d) >= MinChunkTokens =>
                LET n == TokenCount(d)
                    u == Uncovered(d)
                IN  /\ Len(ChunksOf(d)) >= 1
                    /\ \A x \in 1 .. Len(ChunksOf(d)) :
                          WindowOf(ChunksOf(d)[x])[1]
                              = (x - 1) * (chunk_size - chunk_overlap)
                    /\ u = (n - Cardinality(u)) .. (n - 1)
                    /\ u # {} =>
                          Cardinality(u) < MinChunkTokens - chunk_overlap
                    /\ chunk_overlap >= MinChunkTokens - 1 => u = {}

\* a page with two emitted windows whose last tokens are in no chunk, next
\* to a page that is covered whole
C28_Witness ==
    /\ ck_pc = "returned"
    /\ chunk_size >= MinChunkTokens
    /\ Len(documents) = 2
    /\ TokenCount(documents[1]) >= MinChunkTokens
    /\ TokenCount(documents[2]) >= MinChunkTokens
    /\ Len(ChunksOf(documents[1])) >= 2
    /\ Uncovered(documents[1]) # {}
    /\ Uncovered(documents[2]) = {}

(***************************************************************************)
(* scripts/chat.py: the interactive client and its local history           *)
(***************************************************************************)
\* questions one session posts
MaxQuestions == 3

\* A typed line is a sequence of pieces, " " standing for white space.
\* str.strip(): the line without its leading and trailing white space
RECURSIVE Strip(_)
Strip(line) ==
    IF line = <<>> THEN <<>>
    ELSE IF Head(line) = " " THEN Strip(Tail(line))
    ELSE IF line[Len(line)] = " " THEN Strip(SubSeq(line, 1, Len(line) - 1))
    ELSE line

\* the string the pieces spell
RECURSIVE Text(_)
Text(line) == IF line = <<>> THEN "" ELSE Head(line) \o Text(Tail(line))

\* str.lower() on the words typed in this model
Lower(word) ==
    CASE word = "EXIT" -> "exit"
      [] word = "Quit" -> "quit"
      [] word = "Clear" -> "clear"
      [] word = "Why?" -> "why?"
      [] OTHER -> word

\* input(...).strip()
Question(line) == Text(Strip(line))

\* `history if history else None`, None written <<>>
HistoryOrNone(history) == IF history = <<>> THEN <<>> ELSE <<history>>

\* a handler of httpx.HTTPError that keeps the question in the history
HistoryAfterErrorKeepsQuestion(history, question) ==
    Append(history, [role |-> "user", content |-> question])

\* `except httpx.HTTPError: ... continue`: the history is not touched
HistoryAfterError(history, question) == history

\* the two history.append calls after a reply
HistoryAfterReply(history, question, data) ==
    history \o <<[role |-> "user", content |-> question],
                 [role |-> "assistant",
                  content |-> Get(data, "answer", "(no answer)")]>>

\* health_check fails: sys.exit(1); or succeeds: the loop is entered
CliHealthCheck ==
    /\ cli_pc = "start"
    /\ \E healthy \in BOOLEAN :
          cli_pc' = IF healthy THEN "prompt" ELSE "exit1"
    /\ UNCHANGED <<cli_history, cli_question, cli_sent, cli_before, cli_last,
                   cli_reply>>
    /\ UNCHANGED <<chunkVars, upsertVars, embedVars, chatVars, runVars,
                   docVars, ensureVars, ingestVars>>

\* input() raises EOFError or KeyboardInterrupt: break
CliEndOfInput ==
    /\ cli_pc = "prompt"
    /\ cli_pc' = "exited"
    /\ cli_before' = cli_history
    /\ cli_last' = "eof"
    /\ UNCHANGED <<cli_history, cli_question, cli_sent, cli_reply>>
    /\ UNCHANGED <<chunkVars, upsertVars, embedVars, chatVars, runVars,
                   docVars, ensureVars, ingestVars>>

\* one line read and handled up to the POST: empty input, quit/exit,
\* clear, or a question that is posted with the history
CliInput(line) ==
    /\ cli_pc = "prompt"
    /\ cli_before' = cli_history
    /\ IF Question(line) = ""
       THEN /\ cli_last' = "empty"
            /\ UNCHANGED <<cli_pc, cli_history, cli_question, cli_sent>>
       ELSE IF Lower(Question(line)) \in {"quit", "exit"}
       THEN /\ cli_last' = "quit"
            /\ cli_pc' = "exited"
            /\ UNCHANGED <<cli_history, cli_question, cli_sent>>
       ELSE IF Lower(Question(line)) = "clear"
       THEN /\ cli_last' = "clear"
            /\ cli_history' = <<>>
            /\ UNCHANGED <<cli_pc, cli_question, cli_sent>>
       ELSE /\ Len(cli_sent) < MaxQuestions
            /\ cli_last' = "asked"
            /\ cli_question' = Question(line)
            /\ cli_sent' = Append(cli_sent,
                                  [question |-> Question(line),
                                   history |-> HistoryOrNone(cli_history)])
            /\ cli_pc' = "waiting"
            /\ UNCHANGED cli_history
    /\ UNCHANGED cli_reply
    /\ UNCHANGED <<chunkVars, upsertVars, embedVars, chatVars, runVars,
                   docVars, ensureVars, ingestVars>>

\* the POST returns 200 with a JSON object: answer shown, history extended
CliReply(data) ==
    /\ cli_pc = "waiting"
    /\ cli_reply' = <<data>>
    /\ cli_history' = HistoryAfterReply(cli_history, cli_question, data)
    /\ cli_last' = "ok"
    /\ cli_pc' = "prompt"
    /\ UNCHANGED <<cli_question, cli_sent, cli_before>>
    /\ UNCHANGED <<chunkVars, upsertVars, embedVars, chatVars, runVars,
                   docVars, ensureVars, ingestVars>>

\* the POST or raise_for_status raises httpx.HTTPError: message, continue
CliRequestFails ==
    /\ cli_pc = "waiting"
    /\ cli_history' = HistoryAfterError(cli_history, cli_question)
    /\ cli_last' = "failed"
    /\ cli_pc' = "prompt"
    /\ UNCHANGED <<cli_question, cli_sent, cli_before, cli_reply>>
    /\ UNCHANGED <<chunkVars, upsertVars, embedVars, chatVars, runVars,
                   docVars, ensureVars, ingestVars>>

\* the 200 reply is not JSON: resp.json() raises a ValueError, which is not
\* an httpx.HTTPError, and the program ends with a traceback
CliReplyNotJson ==
    /\ cli_pc = "waiting"
    /\ cli_last' = "crashed"
    /\ cli_pc' = "crashed"
    /\ UNCHANGED <<cli_history, cli_question, cli_sent, cli_before, cli_reply>>
    /\ UNCHANGED <<chunkVars, upsertVars, embedVars, chatVars, runVars,
                   docVars, ensureVars, ingestVars>>

\* lines typed: nothing, white space, commands in several spellings, two
\* questions with white space around and inside
CliLines ==
    {<<>>, <<" ">>, <<"quit">>, <<" ", "EXIT">>, <<"Clear", " ">>,
     <<" ", "Why?", " ">>, <<"how", " ", "so?">>}

\* reply bodies: with an answer, and without the "answer" key
CliReplies ==
    {[answer |-> "Page 3 says so.", sources |-> <<>>], [sources |-> <<>>]}

CliInit ==
    /\ ChunkIdle
    /\ UpsertIdle
    /\ EmbedIdle
    /\ ChatIdle
    /\ RunsIdle
    /\ DocIdle
    /\ EnsureIdle
    /\ IngestIdle
    /\ CliIdle

CliNext ==
    \/ CliHealthCheck
    \/ CliEndOfInput
    \/ \E line \in CliLines : CliInput(line)
    \/ \E data \in CliReplies : CliReply(data)
    \/ CliRequestFails
    \/ CliReplyNotJson

SpecCli == CliInit /\ [][CliNext]_vars

\* user, assistant, user, assistant, ..
Alternates(history) ==
    /\ Len(history) % 2 = 0
    /\ \A k \in DOMAIN history :
          history[k].role = IF k % 2 = 1 THEN "user" ELSE "assistant"

\* C30: the local history always has even length and alternates user,
\* assistant from a user message on; a reply extends the history read
\* before the input by exactly the question and the returned answer; a
\* failed request and an empty input leave it as it was; clear empties it;
\* every posted body carries the history as it stood before the question
\* was typed (None when empty), which never ends with the question's own
\* message.
C30_HistoryShape ==
    /\ Alternates(cli_history)
    /\ cli_last = "ok" =>
          /\ cli_history = cli_before \o
                <<[role |-> "user", content |-> cli_question],
                  [role |-> "assistant",
                   content |-> IF "answer" \in DOMAIN cli_reply[1]
                               THEN cli_reply[1].answer ELSE "(no answer)"]>>
    /\ cli_last \in {"failed", "empty", "asked", "crashed", "quit", "eof"} =>
          cli_history = cli_before
    /\ cli_last = "clear" => cli_history = <<>>
    /\ cli_last \in {"asked", "ok", "failed", "crashed"} =>
          /\ cli_sent # <<>>
          /\ cli_sent[Len(cli_sent)] =
                [question |-> cli_question,
                 history |-> IF cli_before = <<>> THEN <<>> ELSE <<cli_before>>]
    /\ \A k \in DOMAIN cli_sent :
          cli_sent[k].history # <<>> =>
              /\ cli_sent[k].history[1] # <<>>
              /\ Alternates(cli_sent[k].history[1])

\* after an answered question, a failed one and a clear, the same question
\* was answered again: the history holds that one exchange only
C30_Witness ==
    /\ Len(cli_sent) = 3
    /\ cli_sent[1].history = <<>>
    /\ cli_sent[2].history # <<>>
    /\ Len(cli_sent[2].history[1]) = 2
    /\ cli_sent[3].history = <<>>
    /\ cli_last = "ok"
    /\ cli_history = <<[role |-> "user", content |-> "how so?"],
                       [role |-> "assistant", content |-> "(no answer)"]>>

====
